---- MODULE Spec2Model ----
(***************************************************************************)
(* Model of the WAL-redo manager of the page server                        *)
(* (pageserver/src/walredo.rs): request_redo with its in-process ("neon")  *)
(* and external ("postgres") batches, the process mutex, the lazily        *)
(* launched wal-redo child and the poll()-driven I/O loop.                 *)
(*                                                                         *)
(* Pages are byte arrays.  A page is represented sparsely as               *)
(*   [len |-> number of bytes, b |-> offset :> non-zero byte]              *)
(* so that the real block size (8192) can be used; an offset outside       *)
(* DOMAIN b holds the byte 0.                                              *)
(***************************************************************************)
EXTENDS Integers, Sequences, FiniteSets, TLC

(***************************************************************************)
(* Bounds of the model (not program constants).                            *)
(***************************************************************************)
\* longest record list of a request
MaxRecs == 4
\* children that may be launched in one behaviour
MaxLaunches == 2
\* granularity of a partial read()/write(): a multiple of IoChunk bytes
IoChunk == 4096

(***************************************************************************)
(* Program constants.                                                      *)
(***************************************************************************)
BLCKSZ == 8192
\* size of the CLOG timestamp appended by ClogSetCommitted (u64)
TIMESTAMP_SIZE == 8

\* postgres_ffi::pg_constants
CLOG_XACTS_PER_BYTE == 4
CLOG_BITS_PER_XACT == 2
CLOG_XACT_BITMASK == 3
CLOG_XACTS_PER_PAGE == BLCKSZ * CLOG_XACTS_PER_BYTE
SLRU_PAGES_PER_SEGMENT == 32
TRANSACTION_STATUS_COMMITTED == 1
TRANSACTION_STATUS_ABORTED == 2
MAXALIGN_SIZE_OF_PAGE_HEADER_DATA == 24
HEAPBLOCKS_PER_BYTE == 4
BITS_PER_HEAPBLOCK == 2
HEAPBLOCKS_PER_PAGE == (BLCKSZ - MAXALIGN_SIZE_OF_PAGE_HEADER_DATA) * HEAPBLOCKS_PER_BYTE
VISIBILITYMAP_FORKNUM == 2
MULTIXACT_OFFSETS_PER_PAGE == BLCKSZ \div 4
MXACT_MEMBER_BITS_PER_XACT == 8
MULTIXACT_MEMBERS_PER_MEMBERGROUP == 4
MULTIXACT_MEMBERGROUP_SIZE == 4 * MULTIXACT_MEMBERS_PER_MEMBERGROUP + 4
MULTIXACT_MEMBERGROUPS_PER_PAGE == BLCKSZ \div MULTIXACT_MEMBERGROUP_SIZE
MULTIXACT_MEMBERS_PER_PAGE ==
    MULTIXACT_MEMBERGROUPS_PER_PAGE * MULTIXACT_MEMBERS_PER_MEMBERGROUP

\* Option<T>: None is the empty set, Some(x) the set {x}
None == {}
Some(x) == {x}
Unwrap(o) == CHOOSE x \in o : TRUE

(***************************************************************************)
(* u8 arithmetic.                                                          *)
(***************************************************************************)
Pow2(n) == 2 ^ n
Bit(x, i) == (x \div Pow2(i)) % 2
\* a & b on u8
And8(a, b) ==
    LET t(i) == Bit(a, i) * Bit(b, i) * Pow2(i)
    IN  t(0) + t(1) + t(2) + t(3) + t(4) + t(5) + t(6) + t(7)
\* a | b on u8
Or8(a, b) == a + b - And8(a, b)
\* !a on u8
Not8(a) == 255 - a
\* a << s on u8 (bits shifted out are lost)
Shl8(a, s) == (a * Pow2(s)) % 256

(***************************************************************************)
(* Pages (BytesMut / Bytes).                                               *)
(***************************************************************************)
PageGet(p, i) == IF i \in DOMAIN p.b THEN p.b[i] ELSE 0

PageSet(p, i, v) ==
    LET dom == IF v = 0 THEN DOMAIN p.b \ {i} ELSE DOMAIN p.b \cup {i}
    IN  [p EXCEPT !.b = [j \in dom |-> IF j = i THEN v ELSE p.b[j]]]

\* BytesMut::truncate
PageTruncate(p, n) ==
    IF n >= p.len THEN p
    ELSE [len |-> n, b |-> [j \in {k \in DOMAIN p.b : k < n} |-> p.b[j]]]

\* BytesMut::extend_from_slice; bytes is a sequence of u8
PageExtend(p, bytes) ==
    LET add == {p.len + k - 1 : k \in {k \in 1..Len(bytes) : bytes[k] # 0}}
    IN  [len |-> p.len + Len(bytes),
         b   |-> [j \in DOMAIN p.b \cup add |->
                    IF j \in DOMAIN p.b THEN p.b[j] ELSE bytes[j - p.len + 1]]]

ZeroPage(n) == [len |-> n, b |-> << >>]

\* to_be_bytes of a 64-bit timestamp; the timestamps of the model are below
\* 2^31, so the four high-order bytes are 0
to_be_bytes(ts) ==
    [k \in 1..TIMESTAMP_SIZE |->
        IF TIMESTAMP_SIZE - k >= 4 THEN 0 ELSE (ts \div (256 ^ (TIMESTAMP_SIZE - k))) % 256]

\* the trailing n bytes of a page, as a sequence
PageTail(p, n) == [k \in 1..n |-> PageGet(p, p.len - n + k - 1)]

(***************************************************************************)
(* Keys and WAL records.                                                   *)
(***************************************************************************)
RelKey(forknum, blknum) ==
    [kind |-> "rel", forknum |-> forknum, slru_kind |-> "none", segno |-> 0, blknum |-> blknum]
SlruKey(slru_kind, segno, blknum) ==
    [kind |-> "slru", forknum |-> 0, slru_kind |-> slru_kind, segno |-> segno, blknum |-> blknum]

\* key_to_rel_block(key).is_ok()
key_to_rel_block_ok(key) == key.kind = "rel"
\* key_to_slru_block(key).is_ok()
key_to_slru_block_ok(key) == key.kind = "slru"

Postgres(rec) == [type |-> "Postgres", rec |-> rec]
ClearVisibilityMapFlags(new_heap_blkno, old_heap_blkno, flags) ==
    [type |-> "ClearVisibilityMapFlags", new_heap_blkno |-> new_heap_blkno,
     old_heap_blkno |-> old_heap_blkno, flags |-> flags]
ClogSetCommitted(xids, timestamp) ==
    [type |-> "ClogSetCommitted", xids |-> xids, timestamp |-> timestamp]
ClogSetAborted(xids) == [type |-> "ClogSetAborted", xids |-> xids]
MultixactOffsetCreate(mid, moff) == [type |-> "MultixactOffsetCreate", mid |-> mid, moff |-> moff]
\* members is a sequence of MultiXactMember: [xid, status]
MultixactMembersCreate(moff, members) ==
    [type |-> "MultixactMembersCreate", moff |-> moff, members |-> members]

\* can_apply_in_neon: everything but a Postgres record is applied in-process
can_apply_in_neon(rec) == rec.type # "Postgres"

(***************************************************************************)
(* Results of the redo functions: Ok(page), Err(e), or a panic (a failed   *)
(* assert!, an index out of bounds).                                       *)
(***************************************************************************)
NoPage == [len |-> 0, b |-> << >>]
Ok(page) == [st |-> "ok", err |-> "none", page |-> page, io |-> None]
Err(e) == [st |-> "err", err |-> e, page |-> NoPage, io |-> None]
Panic == [st |-> "panic", err |-> "none", page |-> NoPage, io |-> None]
\* std::io::Error::new(kind, msg)
IoErr(kind, msg) == [kind |-> kind, msg |-> msg]
\* WalRedoError::IoError(e), by map_err(WalRedoError::IoError) or From<io::Error>
WalRedoIoError(e) == [st |-> "err", err |-> "IoError", page |-> NoPage, io |-> Some(e)]

\* the kinds of WalRedoError
WalRedoError == {"IoError", "InvalidState", "InvalidRequest", "InvalidRecord"}

HEAPBLK_TO_MAPBLOCK(x) == x \div HEAPBLOCKS_PER_PAGE
HEAPBLK_TO_MAPBYTE(x) == (x % HEAPBLOCKS_PER_PAGE) \div HEAPBLOCKS_PER_BYTE
HEAPBLK_TO_OFFSET(x) == (x % HEAPBLOCKS_PER_BYTE) * BITS_PER_HEAPBLOCK

\* postgres_ffi::transaction_id_set_status
transaction_id_set_status(xid, status, page) ==
    LET byteno == (xid % CLOG_XACTS_PER_PAGE) \div CLOG_XACTS_PER_BYTE
        bshift == (xid % CLOG_XACTS_PER_BYTE) * CLOG_BITS_PER_XACT
    IN  IF byteno >= page.len THEN Panic
        ELSE Ok(PageSet(page, byteno,
                    Or8(And8(PageGet(page, byteno), Not8(Shl8(CLOG_XACT_BITMASK, bshift))),
                        Shl8(status, bshift))))

\* the 2-bit status of xid on a CLOG page
transaction_id_get_status(xid, page) ==
    LET byteno == (xid % CLOG_XACTS_PER_PAGE) \div CLOG_XACTS_PER_BYTE
        bshift == (xid % CLOG_XACTS_PER_BYTE) * CLOG_BITS_PER_XACT
    IN  (PageGet(page, byteno) \div Pow2(bshift)) % 4

\* LittleEndian::write_u32(&mut page[off..off + 4], v)
write_u32(page, off, v) ==
    LET byte(k) == (v \div (256 ^ k)) % 256
    IN  IF off + 4 > page.len THEN Panic
        ELSE Ok(PageSet(PageSet(PageSet(PageSet(page, off, byte(0)), off + 1, byte(1)),
                                off + 2, byte(2)), off + 3, byte(3)))

\* postgres_ffi::nonrelfile_utils: where the flags word and the xid of the
\* member at a multixact offset are on a members page
mx_offset_to_flags_offset(xid) ==
    ((xid \div MULTIXACT_MEMBERS_PER_MEMBERGROUP) % MULTIXACT_MEMBERGROUPS_PER_PAGE)
    * MULTIXACT_MEMBERGROUP_SIZE
mx_offset_to_flags_bitshift(xid) ==
    (xid % MULTIXACT_MEMBERS_PER_MEMBERGROUP) * MXACT_MEMBER_BITS_PER_XACT
mx_offset_to_member_offset(xid) ==
    mx_offset_to_flags_offset(xid) + 4 + (xid % MULTIXACT_MEMBERS_PER_MEMBERGROUP) * 4

\* let mut flagsval = LittleEndian::read_u32(&page[flagsoff..flagsoff + 4]);
\* flagsval &= !(((1 << MXACT_MEMBER_BITS_PER_XACT) - 1) << bshift);
\* flagsval |= status << bshift;
\* LittleEndian::write_u32(&mut page[flagsoff..flagsoff + 4], flagsval);
\* computed on the four bytes of the word: bshift is a multiple of 8 and the
\* window is one byte, byte k; the bytes of status move up by k bytes, those
\* shifted beyond the word are lost
set_member_flags(page, flagsoff, status, bshift) ==
    LET k       == bshift \div MXACT_MEMBER_BITS_PER_XACT
        sb(j)   == (status \div (256 ^ j)) % 256
        nb(m)   == Or8(IF m = k THEN 0 ELSE PageGet(page, flagsoff + m),
                       IF m >= k THEN sb(m - k) ELSE 0)
    IN  IF flagsoff + 4 > page.len THEN Panic
        ELSE Ok(PageSet(PageSet(PageSet(PageSet(page, flagsoff, nb(0)), flagsoff + 1, nb(1)),
                                flagsoff + 2, nb(2)), flagsoff + 3, nb(3)))

\* the loop over the members of MultixactMembersCreate, from index i (1-based)
RECURSIVE multixact_set_members(_, _, _, _, _)
multixact_set_members(key, page, moff, members, i) ==
    IF i > Len(members) THEN Ok(page)
    ELSE LET offset          == moff + (i - 1)
             pageno          == offset \div MULTIXACT_MEMBERS_PER_PAGE
             memberoff       == mx_offset_to_member_offset(offset)
             flagsoff        == mx_offset_to_flags_offset(offset)
             bshift          == mx_offset_to_flags_bitshift(offset)
             expected_segno  == pageno \div SLRU_PAGES_PER_SEGMENT
             expected_blknum == pageno % SLRU_PAGES_PER_SEGMENT
             r1              == set_member_flags(page, flagsoff, members[i].status, bshift)
             r2              == write_u32(r1.page, memberoff, members[i].xid)
         IN  IF key.segno # expected_segno \/ key.blknum # expected_blknum THEN Panic
             ELSE IF r1.st # "ok" THEN r1
             ELSE IF r2.st # "ok" THEN r2
             ELSE multixact_set_members(key, r2.page, moff, members, i + 1)

\* mutant: the VM block of the heap block is not compared with the key's
clear_vm_bits_unchecked(page, blknum, heap_blkno, flags) ==
    LET blkno      == Unwrap(heap_blkno)
        map_byte   == HEAPBLK_TO_MAPBYTE(blkno)
        map_offset == HEAPBLK_TO_OFFSET(blkno)
        at         == MAXALIGN_SIZE_OF_PAGE_HEADER_DATA + map_byte
    IN  IF heap_blkno = None THEN Ok(page)
        ELSE IF at >= page.len THEN Panic
        ELSE Ok(PageSet(page, at, And8(PageGet(page, at), Not8(Shl8(flags, map_offset)))))

\* one heap block (an Option<u32>) of ClearVisibilityMapFlags:
\* map[map_byte] &= !(flags << map_offset)
clear_vm_bits(page, blknum, heap_blkno, flags) ==
    LET blkno      == Unwrap(heap_blkno)
        map_block  == HEAPBLK_TO_MAPBLOCK(blkno)
        map_byte   == HEAPBLK_TO_MAPBYTE(blkno)
        map_offset == HEAPBLK_TO_OFFSET(blkno)
        at         == MAXALIGN_SIZE_OF_PAGE_HEADER_DATA + map_byte
    IN  IF heap_blkno = None THEN Ok(page)
        ELSE IF map_block # blknum THEN Panic
        ELSE IF at >= page.len THEN Panic
        ELSE Ok(PageSet(page, at, And8(PageGet(page, at), Not8(Shl8(flags, map_offset)))))

\* the loop over the xids of ClogSetCommitted / ClogSetAborted, from index i
RECURSIVE clog_set_xids(_, _, _, _, _)
clog_set_xids(key, page, xids, status, i) ==
    IF i > Len(xids) THEN Ok(page)
    ELSE LET xid             == xids[i]
             pageno          == xid \div CLOG_XACTS_PER_PAGE
             expected_segno  == pageno \div SLRU_PAGES_PER_SEGMENT
             expected_blknum == pageno % SLRU_PAGES_PER_SEGMENT
             r               == transaction_id_set_status(xid, status, page)
         IN  IF key.segno # expected_segno \/ key.blknum # expected_blknum THEN Panic
             ELSE IF r.st # "ok" THEN r
             ELSE clog_set_xids(key, r.page, xids, status, i + 1)

\* mutant: the timestamp is appended without truncating an existing one
clog_append_no_truncate(page, timestamp) == PageExtend(page, to_be_bytes(timestamp))

\* the timestamp handling at the end of ClogSetCommitted
clog_append_timestamp(page, timestamp) ==
    LET p1 == IF page.len = BLCKSZ + TIMESTAMP_SIZE THEN PageTruncate(page, BLCKSZ) ELSE page
    IN  IF p1.len = BLCKSZ THEN PageExtend(p1, to_be_bytes(timestamp)) ELSE p1

apply_record_neon(key, page, record) ==
    CASE record.type = "Postgres" -> Err("InvalidRequest")
      [] record.type = "ClearVisibilityMapFlags" ->
            IF ~key_to_rel_block_ok(key) THEN Err("InvalidRecord")
            ELSE IF key.forknum # VISIBILITYMAP_FORKNUM THEN Panic
            ELSE LET r1 == clear_vm_bits(page, key.blknum, record.new_heap_blkno, record.flags)
                 IN  IF r1.st # "ok" THEN r1
                     ELSE clear_vm_bits(r1.page, key.blknum, record.old_heap_blkno, record.flags)
      [] record.type = "ClogSetCommitted" ->
            IF ~key_to_slru_block_ok(key) THEN Err("InvalidRecord")
            ELSE IF key.slru_kind # "Clog" THEN Panic
            ELSE LET r == clog_set_xids(key, page, record.xids,
                                        TRANSACTION_STATUS_COMMITTED, 1)
                 IN  IF r.st # "ok" THEN r
                     ELSE Ok(clog_append_timestamp(r.page, record.timestamp))
      [] record.type = "ClogSetAborted" ->
            IF ~key_to_slru_block_ok(key) THEN Err("InvalidRecord")
            ELSE IF key.slru_kind # "Clog" THEN Panic
            ELSE clog_set_xids(key, page, record.xids, TRANSACTION_STATUS_ABORTED, 1)
      [] record.type = "MultixactOffsetCreate" ->
            LET pageno  == record.mid \div MULTIXACT_OFFSETS_PER_PAGE
                entryno == record.mid % MULTIXACT_OFFSETS_PER_PAGE
                expected_segno  == pageno \div SLRU_PAGES_PER_SEGMENT
                expected_blknum == pageno % SLRU_PAGES_PER_SEGMENT
            IN  IF ~key_to_slru_block_ok(key) THEN Err("InvalidRecord")
                ELSE IF key.slru_kind # "MultiXactOffsets" THEN Panic
                ELSE IF key.segno # expected_segno \/ key.blknum # expected_blknum THEN Panic
                ELSE write_u32(page, entryno * 4, record.moff)
      [] record.type = "MultixactMembersCreate" ->
            IF ~key_to_slru_block_ok(key) THEN Err("InvalidRecord")
            ELSE IF key.slru_kind # "MultiXactMembers" THEN Panic
            ELSE multixact_set_members(key, page, record.moff, record.members, 1)

\* the loop of apply_batch_neon over records[first..last]; a record list is a
\* sequence of pairs <<lsn, record>>
RECURSIVE apply_records_neon(_, _, _, _, _)
apply_records_neon(key, page, records, first, last) ==
    IF first > last THEN Ok(page)
    ELSE LET r == apply_record_neon(key, page, records[first][2])
         IN  IF r.st # "ok" THEN r
             ELSE apply_records_neon(key, r.page, records, first + 1, last)

\* mutant: a missing base image is replaced by a zeroed page
apply_batch_neon_zeroed(key, base_img, records, first, last) ==
    apply_records_neon(key, IF base_img = None THEN ZeroPage(BLCKSZ) ELSE Unwrap(base_img),
                       records, first, last)

\* apply_batch_neon on records[first..last]; base_img is an Option<Bytes>
apply_batch_neon(key, base_img, records, first, last) ==
    IF base_img = None THEN Err("InvalidRequest")
    ELSE apply_records_neon(key, Unwrap(base_img), records, first, last)

(***************************************************************************)
(* request_redo: the boundaries of the batches.                            *)
(***************************************************************************)
\* The batch that starts at batch_start ends before the first record whose
\* can_apply_in_neon differs from the batch's (the loop of request_redo), or
\* with the last record.
\* mutant: a batch ends after each record
batch_end_single(records, batch_start) == batch_start

batch_end(records, batch_start) ==
    LET batch_neon == can_apply_in_neon(records[batch_start][2])
        changes    == {i \in (batch_start + 1)..Len(records) :
                          can_apply_in_neon(records[i][2]) # batch_neon}
    IN  IF changes = {} THEN Len(records)
        ELSE (CHOOSE i \in changes : \A j \in changes : i <= j) - 1

(***************************************************************************)
(* The messages of the redo protocol; writebuf is a sequence of messages,  *)
(* each taking 1 byte (the tag) plus len bytes.                            *)
(***************************************************************************)
build_begin_redo_for_block_msg(tag) ==
    [type |-> "B", len |-> 4 + 1 + 4 * 4, tag |-> Some(tag), lsn |-> 0, page |-> None,
     rec |-> << >>]
build_push_page_msg(tag, base_img) ==
    [type |-> "P", len |-> 4 + 1 + 4 * 4 + base_img.len, tag |-> Some(tag), lsn |-> 0,
     page |-> Some(base_img), rec |-> << >>]
build_apply_record_msg(endlsn, rec) ==
    [type |-> "A", len |-> 4 + 8 + Len(rec), tag |-> None, lsn |-> endlsn, page |-> None,
     rec |-> rec]
build_get_page_msg(tag) ==
    [type |-> "G", len |-> 4 + 1 + 4 * 4, tag |-> Some(tag), lsn |-> 0, page |-> None,
     rec |-> << >>]

\* mutant: the records are serialized last to first
build_writebuf_reversed(tag, base_img, records, first, last) ==
    <<build_begin_redo_for_block_msg(tag)>>
    \o (IF base_img # None THEN <<build_push_page_msg(tag, Unwrap(base_img))>> ELSE << >>)
    \o [k \in 1..(last - first + 1) |->
          build_apply_record_msg(records[last - k + 1][1], records[last - k + 1][2].rec)]
    \o <<build_get_page_msg(tag)>>

\* the serialization at the head of apply_wal_records; the BufferTag of the
\* messages is modelled by the key it is made from
build_writebuf(tag, base_img, records, first, last) ==
    <<build_begin_redo_for_block_msg(tag)>>
    \o (IF base_img # None THEN <<build_push_page_msg(tag, Unwrap(base_img))>> ELSE << >>)
    \o [k \in 1..(last - first + 1) |->
          build_apply_record_msg(records[first + k - 1][1], records[first + k - 1][2].rec)]
    \o <<build_get_page_msg(tag)>>

RECURSIVE writebuf_len(_)
writebuf_len(buf) == IF buf = << >> THEN 0 ELSE 1 + Head(buf).len + writebuf_len(Tail(buf))

(***************************************************************************)
(* One iteration of the I/O loop of apply_wal_records.                     *)
(*                                                                         *)
(* ev is what the operating system and the child do in this iteration:     *)
(* whether poll() fails, the revents of the three pipes, and the results   *)
(* of the read() / write() calls the iteration makes.                      *)
(***************************************************************************)
IoOk(n) == [ok |-> TRUE, n |-> n]
IoFail == [ok |-> FALSE, n |-> 0]

Continue(nwrite, nresult, did) ==
    [res |-> "continue", nwrite |-> nwrite, nresult |-> nresult, e |-> None, did |-> did]
Fail(nwrite, nresult, e, did) ==
    [res |-> "fail", nwrite |-> nwrite, nresult |-> nresult, e |-> Some(e), did |-> did]

\* mutant: the timeout is reported with a kind of its own
TimedOut_kind == IoErr("TimedOut", "WAL redo timed out")

\* Error::new(ErrorKind::Other, "WAL redo timed out")
TimedOut == IoErr("Other", "WAL redo timed out")

\* mutant: a hang-up is reported as an error of no particular kind
ClosedUnexpectedly_other(pipe) ==
    IoErr("Other", "WAL redo process closed its " \o pipe \o " unexpectedly")

\* Error::new(ErrorKind::BrokenPipe, "WAL redo process closed its ... unexpectedly")
ClosedUnexpectedly(pipe) ==
    IoErr("BrokenPipe", "WAL redo process closed its " \o pipe \o " unexpectedly")

\* mutant: stdin is polled in every iteration
nfds_all(nwrite, len) == 3

\* "If we have more data to write, wake up if 'stdin' becomes writeable":
\* the number of entries of pollfds {stdout, stderr, stdin} that are polled
nfds(nwrite, len) == IF nwrite < len THEN 3 ELSE 2

\* mutant: the loop goes on to stdin and stdout after logging the output of
\* stderr
apply_wal_records_iteration_nocontinue(nwrite, nresult, len, ev) ==
    LET n       == (IF ev.out # {} THEN 1 ELSE 0) + (IF ev.err # {} THEN 1 ELSE 0)
                   + (IF nfds(nwrite, len) = 3 /\ ev.in # {} THEN 1 ELSE 0)
        err_in  == ev.err \cap {"POLLERR", "POLLIN"} # {}
        in_out  == ev.in \cap {"POLLERR", "POLLOUT"} # {}
        out_in  == ev.out \cap {"POLLERR", "POLLIN"} # {}
        do_write == nwrite < len /\ in_out
        nwrite2  == IF do_write /\ ev.wr.ok THEN nwrite + ev.wr.n ELSE nwrite
        nresult2 == IF out_in /\ ev.rd.ok THEN nresult + ev.rd.n ELSE nresult
        stdout_part(did) ==
            IF out_in
            THEN IF ~ev.rd.ok
                 THEN Fail(nwrite2, nresult, IoErr("Os", "read stdout"), did \cup {"stdout"})
                 ELSE Continue(nwrite2, nresult2, did \cup {"stdout"})
            ELSE IF "POLLHUP" \in ev.out
                 THEN Fail(nwrite2, nresult, ClosedUnexpectedly("stdout"), did)
                 ELSE Continue(nwrite2, nresult, did)
        stdin_part(did) ==
            IF nwrite < len
            THEN IF in_out
                 THEN IF ~ev.wr.ok
                      THEN Fail(nwrite, nresult, IoErr("Os", "write stdin"), did \cup {"stdin"})
                      ELSE stdout_part(did \cup {"stdin"})
                 ELSE IF "POLLHUP" \in ev.in
                      THEN Fail(nwrite, nresult, ClosedUnexpectedly("stdin"), did)
                      ELSE stdout_part(did)
            ELSE stdout_part(did)
    IN  IF ev.pollerr THEN Fail(nwrite, nresult, IoErr("Os", "poll"), {})
        ELSE IF n = 0 THEN Fail(nwrite, nresult, TimedOut, {"timeout"})
        ELSE IF err_in
             THEN IF ~ev.errread.ok
                  THEN Fail(nwrite, nresult, IoErr("Os", "read stderr"), {"stderr"})
                  ELSE IF ev.errread.n > 0
                       THEN stdin_part({"stderr", "logged"})
                       ELSE stdin_part({"stderr"})
             ELSE IF "POLLHUP" \in ev.err
                  THEN Fail(nwrite, nresult, ClosedUnexpectedly("stderr"), {})
                  ELSE stdin_part({})

apply_wal_records_iteration(nwrite, nresult, len, ev) ==
    LET n       == (IF ev.out # {} THEN 1 ELSE 0) + (IF ev.err # {} THEN 1 ELSE 0)
                   + (IF nfds(nwrite, len) = 3 /\ ev.in # {} THEN 1 ELSE 0)
        err_in  == ev.err \cap {"POLLERR", "POLLIN"} # {}
        in_out  == ev.in \cap {"POLLERR", "POLLOUT"} # {}
        out_in  == ev.out \cap {"POLLERR", "POLLIN"} # {}
        \* the write to stdin
        do_write == nwrite < len /\ in_out
        nwrite2  == IF do_write /\ ev.wr.ok THEN nwrite + ev.wr.n ELSE nwrite
        \* the read of stdout
        nresult2 == IF out_in /\ ev.rd.ok THEN nresult + ev.rd.n ELSE nresult
        stdout_part(did) ==
            IF out_in
            THEN IF ~ev.rd.ok
                 THEN Fail(nwrite2, nresult, IoErr("Os", "read stdout"), did \cup {"stdout"})
                 ELSE Continue(nwrite2, nresult2, did \cup {"stdout"})
            ELSE IF "POLLHUP" \in ev.out
                 THEN Fail(nwrite2, nresult,
                           ClosedUnexpectedly("stdout"),
                           did)
                 ELSE Continue(nwrite2, nresult, did)
        stdin_part(did) ==
            IF nwrite < len
            THEN IF in_out
                 THEN IF ~ev.wr.ok
                      THEN Fail(nwrite, nresult, IoErr("Os", "write stdin"), did \cup {"stdin"})
                      ELSE stdout_part(did \cup {"stdin"})
                 ELSE IF "POLLHUP" \in ev.in
                      THEN Fail(nwrite, nresult,
                                ClosedUnexpectedly("stdin"),
                                did)
                      ELSE stdout_part(did)
            ELSE stdout_part(did)
    IN  IF ev.pollerr THEN Fail(nwrite, nresult, IoErr("Os", "poll"), {})
        ELSE IF n = 0 THEN Fail(nwrite, nresult, TimedOut, {"timeout"})
        ELSE IF err_in
             THEN IF ~ev.errread.ok
                  THEN Fail(nwrite, nresult, IoErr("Os", "read stderr"), {"stderr"})
                  ELSE IF ev.errread.n > 0
                       THEN Continue(nwrite, nresult, {"stderr", "logged"})
                       ELSE stdin_part({"stderr"})
             ELSE IF "POLLHUP" \in ev.err
                  THEN Fail(nwrite, nresult,
                            ClosedUnexpectedly("stderr"),
                            {})
                  ELSE stdin_part({})

\* what a read()/write() of at most r > 0 bytes may transfer
Sizes(r) == {r} \cup {k * IoChunk : k \in 1..(r \div IoChunk)}
WriteResults(r) == {IoFail} \cup {IoOk(n) : n \in Sizes(r)}
ReadResults(r) == {IoFail, IoOk(0)} \cup {IoOk(n) : n \in Sizes(r)}
StderrReads == {IoFail, IoOk(0), IoOk(1), IoOk(2)}

REVENTS_IN == {{}, {"POLLIN"}, {"POLLHUP"}}
REVENTS_OUT == {{}, {"POLLOUT"}, {"POLLHUP"}, {"POLLERR"}}

\* an event with the given revents and call results
IoEvent(o, e, i, er, w, r) ==
    [pollerr |-> FALSE, out |-> o, err |-> e, in |-> i, errread |-> er, wr |-> w, rd |-> r]
PollError ==
    [pollerr |-> TRUE, out |-> {}, err |-> {}, in |-> {}, errread |-> IoFail,
     wr |-> IoFail, rd |-> IoFail]
\* the calls an iteration makes under the revents o, e, i when the calls
\* before them return er, w
Calls(nwrite, nresult, len, o, e, i, er, w) ==
    apply_wal_records_iteration(nwrite, nresult, len, IoEvent(o, e, i, er, w, IoOk(0))).did

\* what may happen in an iteration that starts with nwrite bytes written and
\* nresult bytes read: the state of the three pipes (that of stdin also when
\* it is not polled) and a result for each call the iteration gets to make;
\* a pipe in eof has returned 0 bytes, the child has closed it, and poll
\* reports its hang-up from then on
IoEvents(nwrite, nresult, len, eof) ==
    {PollError} \cup
    UNION {UNION {UNION {
        {IoEvent(o, e, i, er, w, r) :
           r \in (IF "stdout" \in Calls(nwrite, nresult, len, o, e, i, er, w)
                  THEN ReadResults(BLCKSZ - nresult) ELSE {IoFail})} :
        w \in (IF "stdin" \in Calls(nwrite, nresult, len, o, e, i, er, IoOk(1))
               THEN WriteResults(len - nwrite) ELSE {IoFail})} :
        er \in (IF e \cap {"POLLERR", "POLLIN"} # {} THEN StderrReads ELSE {IoFail})} :
        o \in (IF "stdout" \in eof THEN {{"POLLHUP"}} ELSE REVENTS_IN),
        e \in (IF "stderr" \in eof THEN {{"POLLHUP"}} ELSE REVENTS_IN),
        i \in REVENTS_OUT}

\* the pipes on which the iteration it, made under the event ev, has read 0 bytes
EndOfFile(it, ev) ==
    {p \in {"stderr"} : "stderr" \in it.did /\ ev.errread.ok /\ ev.errread.n = 0}
    \cup {p \in {"stdout"} : "stdout" \in it.did /\ ev.rd.ok /\ ev.rd.n = 0}

(***************************************************************************)
(* Inputs.                                                                 *)
(***************************************************************************)
Callers == {"t1", "t2"}

VMKey == RelKey(VISIBILITYMAP_FORKNUM, 0)
ClogKey == SlruKey("Clog", 0, 0)

\* a visibility-map page with all bits of its first two bytes set
VMBase == [len |-> BLCKSZ, b |-> (24 :> 255 @@ 25 :> 255)]
\* CLOG pages, without and with a trailing timestamp
ClogBase == [len |-> BLCKSZ, b |-> (0 :> 32)]
ClogBaseTs == PageExtend(ClogBase, to_be_bytes(9))

recA == ClearVisibilityMapFlags(Some(1), None, 1)
recB == ClearVisibilityMapFlags(None, Some(2), 2)
recC == Postgres(<<1, 2, 3>>)
recD == ClearVisibilityMapFlags(Some(5), Some(5), 3)
recK == ClogSetCommitted(<<1, 6>>, 258)
recL == ClogSetCommitted(<<2>>, 7)
recM == ClogSetAborted(<<6>>)

\* the record list with the records rs, at consecutive LSNs
WithLsns(rs) == [k \in 1..Len(rs) |-> <<8 * k, rs[k]>>]
SeqsUpTo(S, n) == UNION {[1..k -> S] : k \in 0..n}

Request(key, base_img, rs) == [key |-> key, base_img |-> base_img, records |-> WithLsns(rs)]

\* multixact pages and records
OffsetsKey == SlruKey("MultiXactOffsets", 0, 0)
MembersKey == SlruKey("MultiXactMembers", 0, 0)
recO == MultixactOffsetCreate(3, 258)
recQ == MultixactMembersCreate(2, <<[xid |-> 7, status |-> 1], [xid |-> 8, status |-> 2]>>)

\* requests whose records break the contract of in-process application: a key
\* of the wrong fork or SLRU kind, a heap block of another VM block, an xid, a
\* multixact id or a member offset of another block
ContractRequests ==
    {Request(RelKey(0, 0), Some(VMBase), <<recA>>),
     Request(VMKey, Some(VMBase),
             <<recA, ClearVisibilityMapFlags(Some(HEAPBLOCKS_PER_PAGE), None, 1)>>),
     Request(VMKey, Some(VMBase),
             <<ClearVisibilityMapFlags(None, Some(HEAPBLOCKS_PER_PAGE + 1), 1)>>),
     Request(OffsetsKey, Some(ClogBase), <<recK>>),
     Request(ClogKey, Some(ClogBase), <<recM>>  \o <<ClogSetAborted(<<2, CLOG_XACTS_PER_PAGE>>)>>),
     Request(ClogKey, Some(ClogBase),
             <<ClogSetCommitted(<<CLOG_XACTS_PER_PAGE * SLRU_PAGES_PER_SEGMENT>>, 5)>>),
     Request(MembersKey, Some(ZeroPage(BLCKSZ)), <<recO>>),
     Request(OffsetsKey, Some(ZeroPage(BLCKSZ)),
             <<recO, MultixactOffsetCreate(MULTIXACT_OFFSETS_PER_PAGE, 1)>>),
     Request(OffsetsKey, Some(ZeroPage(BLCKSZ)), <<recQ>>),
     Request(MembersKey, Some(ZeroPage(BLCKSZ)),
             <<MultixactMembersCreate(MULTIXACT_MEMBERS_PER_PAGE - 1,
                                      <<[xid |-> 7, status |-> 1], [xid |-> 8, status |-> 2]>>)>>)}

\* the requests of a single caller
SeqRequests ==
    {Request(VMKey, b, rs) : b \in {None, Some(VMBase)},
                             rs \in SeqsUpTo({recA, recC}, MaxRecs)}
    \cup {Request(VMKey, b, <<recA, recB, recC, recD>>) : b \in {None, Some(VMBase)}}
    \cup {Request(ClogKey, b, rs) : b \in {None, Some(ClogBase), Some(ClogBaseTs)},
                                    rs \in {<<recK>>, <<recK, recK>>, <<recL, recK>>, <<recK, recM>>,
                                            <<recC>>}}
    \cup {Request(VMKey, Some(VMBase), <<recK>>)}
    \cup {Request(OffsetsKey, Some(ZeroPage(BLCKSZ)), <<recO>>),
          Request(MembersKey, Some(ZeroPage(BLCKSZ)), <<recQ, recC>>)}
    \cup ContractRequests
\* the requests of concurrent callers
ConcRequests ==
    {Request(VMKey, None, <<recC>>), Request(VMKey, Some(VMBase), <<recA>>)}

\* the pages a child may answer with
ChildPages == {ZeroPage(BLCKSZ), [len |-> BLCKSZ, b |-> (24 :> 7)]}

(***************************************************************************)
(* State.                                                                  *)
(***************************************************************************)
VARIABLES
    scenario,     \* "seq": one caller, SeqRequests; "conc": all callers, ConcRequests
    pc,           \* per caller: "idle", "batch" (in request_redo, between batches),
                  \* "io" (in the loop of apply_wal_records), "returned"
    req,          \* per caller: the arguments of the call (key, base_img, records)
    img,          \* per caller: request_redo's img
    batch_start,  \* per caller: request_redo's batch_start (1-based)
    io,           \* per caller: writebuf.len(), nwrite, nresult of apply_wal_records,
                  \* and what its last iteration did
    ret,          \* per caller: what the last call returned
    log,          \* per caller: the batches the current call has applied
    mutex,        \* the holder of PostgresRedoManager.process's Mutex, or None
    process,      \* the Option<PostgresRedoProcess> in the mutex: a child pid or None
    live,         \* the wal-redo children that are running (spawned, not yet killed)
    launches,     \* the number of wal-redo children spawned so far
    \* ---- the WAL receiver's connection manager (connection_manager.rs) ----
    now,                     \* Utc::now().naive_utc(), in milliseconds
    mgr_pc,                  \* position of the manager task: "wait_active" (in
                             \* wait_for_active_timeline), "subscribe" (in
                             \* subscribe_for_timeline_updates), "select" (awaiting an
                             \* event), "evaluate" (before next_connection_candidate),
                             \* "change" (entering change_connection), "shutdown_old"
                             \* (drop_old_connection awaits the old sub-task's shutdown),
                             \* "shutdown" (WalreceiverState::shutdown awaits the
                             \* sub-task's shutdown), "returned"
    wal_connection,          \* WalreceiverState.wal_connection: Option<WalConnection>
    wal_connection_retries,  \* WalreceiverState.wal_connection_retries: NodeId -> RetryInfo
    wal_stream_candidates,   \* WalreceiverState.wal_stream_candidates: NodeId -> BrokerSkTimeline
    new_candidate,           \* the Option<NewWalConnectionCandidate> of the loop's last evaluation
    sleep_until,             \* the deadline of the loop's retry timer (now + time_until_next_retry)
    handled,                 \* the event the current iteration of the loop has handled, with
                             \* the retry record its handler removed
    node_ids_to_remove,      \* cleanup_old_candidates' node_ids_to_remove, of the last evaluation
    timeline_state,          \* Timeline::current_state
    state_sender,            \* TRUE while the sender of the timeline's state updates exists
    shutdown_requested,      \* TRUE once task_mgr has requested the manager task's shutdown
    running_tasks,           \* the safekeepers whose streaming sub-task is running (spawned
                             \* and not finished)
    dropped_connection,      \* the Option<WalConnection> taken out of wal_connection by
                             \* drop_old_connection or shutdown, while its sub-task's
                             \* shutdown is awaited
    \* ---- the background processes of the CLI (background_process.rs) ----
    cli,                     \* position of the CLI: "idle", "start_poll" (in the loop of
                             \* start_process), "stop_kill" (stop_process before kill()),
                             \* "stop_poll" (in the loop of stop_process)
    pid_file,                \* the pid file, as pid_file::read reports it
    alive,                   \* the pids of the running processes
    spawned_process,         \* start_process's spawned_process: the child's pid or None
    loop_retries,            \* the retries of the loop of start_process or stop_process
    slept,                   \* milliseconds the current loop has slept
    status_check,            \* the result of the last call of process_status_check
    stop_args,               \* stop_process's immediate and the pid it has read
    sent,                    \* the signals sent by the CLI: <<pid, signal>>
    outcome                  \* what the last call of start_process or stop_process returned

vars == <<scenario, pc, req, img, batch_start, io, ret, log, mutex, process, live, launches>>

NoReq == [key |-> VMKey, base_img |-> None, records |-> << >>]
NoRet == [st |-> "none", err |-> "none", page |-> NoPage, io |-> None]
IoIdle == [len |-> 0, nwrite |-> 0, nresult |-> 0, did |-> {}, logged |-> 0, eof |-> {}]

wr_vars == <<now, mgr_pc, wal_connection, wal_connection_retries,
             wal_stream_candidates, new_candidate, sleep_until, handled, node_ids_to_remove,
             timeline_state, state_sender, shutdown_requested, running_tasks,
             dropped_connection>>

bp_vars == <<cli, pid_file, alive, spawned_process, loop_retries, slept, status_check,
             stop_args, sent, outcome>>

NoEvent == [kind |-> "none", removed |-> None]

\* WalreceiverState::new: no connection, no candidates, no retries; the manager
\* task is at its first connection_manager_loop_step
WalreceiverStateNew ==
    /\ now = 0
    /\ mgr_pc = "wait_active"
    /\ timeline_state \in (IF scenario = "lifecycle" THEN {"Active", "Suspended"}
                           ELSE {"Active"})
    /\ state_sender = TRUE
    /\ shutdown_requested = FALSE
    /\ running_tasks = {}
    /\ dropped_connection = None
    /\ wal_connection = None
    /\ wal_connection_retries = << >>
    /\ wal_stream_candidates = << >>
    /\ new_candidate = None
    /\ sleep_until = None
    /\ handled = NoEvent
    /\ node_ids_to_remove = {}

\* PostgresRedoManager::new: the process is launched lazily
PostgresRedoManagerNew ==
    /\ pc = [c \in Callers |-> "idle"]
    /\ req = [c \in Callers |-> NoReq]
    /\ img = [c \in Callers |-> None]
    /\ batch_start = [c \in Callers |-> 0]
    /\ io = [c \in Callers |-> IoIdle]
    /\ ret = [c \in Callers |-> NoRet]
    /\ log = [c \in Callers |-> << >>]
    /\ mutex = None
    /\ process = None
    /\ live = {}
    /\ launches = 0

\* PidFileRead: what pid_file::read returns
NotExist == [kind |-> "NotExist"]
NotHeldByAnyProcess(pid) == [kind |-> "NotHeldByAnyProcess", pid |-> pid]
LockedByOtherProcess(pid) == [kind |-> "LockedByOtherProcess", pid |-> pid]

\* the pid of the child start_process spawns, and the pid of a process started
\* by an earlier invocation of the CLI
ChildPid == 1
EarlierPid == 2

NoOutcome == [of |-> "none", st |-> "none"]
NoStop == [immediate |-> FALSE, pid |-> None]

\* no invocation of the CLI runs; an earlier one may have left a pid file, held by
\* its process or by none
BackgroundProcessIdle ==
    /\ cli = "idle"
    /\ spawned_process = None
    /\ loop_retries = 0
    /\ slept = 0
    /\ status_check = "none"
    /\ stop_args = NoStop
    /\ sent = {}
    /\ outcome = NoOutcome
    /\ \/ pid_file = NotExist /\ alive = {}
       \/ /\ scenario \in {"Create", "Expect"}
          /\ \/ pid_file = NotHeldByAnyProcess(EarlierPid) /\ alive = {}
             \/ pid_file = LockedByOtherProcess(EarlierPid) /\ alive = {EarlierPid}

Init ==
    /\ scenario \in {"seq", "conc"}
    /\ PostgresRedoManagerNew
    /\ WalreceiverStateNew
    /\ BackgroundProcessIdle

ActiveCallers == IF scenario = "seq" THEN {"t1"} ELSE Callers
Requests == IF scenario = "seq" THEN SeqRequests ELSE ConcRequests

(***************************************************************************)
(* Helpers of the actions.                                                 *)
(***************************************************************************)
Records(c) == req[c].records
BatchRec(c) == Records(c)[batch_start[c]][2]

\* the function returns r to its caller; its locals are gone
Return(c, r) ==
    /\ pc' = [pc EXCEPT ![c] = "returned"]
    /\ ret' = [ret EXCEPT ![c] = r]
    /\ img' = [img EXCEPT ![c] = None]
    /\ batch_start' = [batch_start EXCEPT ![c] = 0]

\* request_redo after the batch ending at last produced page: "img = Some(result?)"
\* and the next batch, or the result of the last batch is returned
Proceed(c, page, last) ==
    IF last = Len(Records(c))
    THEN Return(c, Ok(page))
    ELSE /\ pc' = [pc EXCEPT ![c] = "batch"]
         /\ img' = [img EXCEPT ![c] = Some(page)]
         /\ batch_start' = [batch_start EXCEPT ![c] = last + 1]
         /\ UNCHANGED ret

\* mutant: the process is used without waiting for the mutex
MutexFree_unguarded == TRUE

\* self.process.lock(): the caller waits until the mutex is free
MutexFree == mutex = None

\* mutant: the child is dropped without being killed
kill_and_wait_leak(children, pid) == children

\* NoLeakChild::kill_and_wait: SIGKILL, then wait()
kill_and_wait(children, pid) == children \ {pid}

\* the outcomes of PostgresRedoProcess::launch: the child runs; initdb or the
\* spawn failed; or set_nonblock failed after the spawn and the scope guard
\* killed the child
LaunchOutcomes == {"ok", "no_child", "killed"}

LogEntry(neon, first, last, base, out, child) ==
    [neon |-> neon, first |-> first, last |-> last, base |-> base, out |-> out,
     child |-> child]

(***************************************************************************)
(* request_redo, up to its first batch.                                    *)
(***************************************************************************)
\* mutant: no check for an empty record list; records[0] panics
RequestRedo_nocheck(c) ==
    /\ c \in ActiveCallers
    /\ pc[c] = "idle"
    /\ \E r \in Requests :
         /\ req' = [req EXCEPT ![c] = r]
         /\ IF r.records = << >>
            THEN Return(c, Panic)
            ELSE /\ pc' = [pc EXCEPT ![c] = "batch"]
                 /\ img' = [img EXCEPT ![c] = r.base_img]
                 /\ batch_start' = [batch_start EXCEPT ![c] = 1]
                 /\ UNCHANGED ret
    /\ UNCHANGED <<scenario, io, log, mutex, process, live, launches>>

RequestRedo(c) ==
    /\ c \in ActiveCallers
    /\ pc[c] = "idle"
    /\ \E r \in Requests :
         /\ req' = [req EXCEPT ![c] = r]
         /\ IF r.records = << >>
            THEN Return(c, Err("InvalidRequest"))
            ELSE /\ pc' = [pc EXCEPT ![c] = "batch"]
                 /\ img' = [img EXCEPT ![c] = r.base_img]
                 /\ batch_start' = [batch_start EXCEPT ![c] = 1]
                 /\ UNCHANGED ret
    /\ UNCHANGED <<scenario, io, log, mutex, process, live, launches>>

(***************************************************************************)
(* A batch applied in-process: apply_batch_neon and the "?" after it.      *)
(***************************************************************************)
\* mutant: the records are applied to the caller's base image in place
ApplyBatchNeon_inplace(c) ==
    /\ pc[c] = "batch"
    /\ can_apply_in_neon(BatchRec(c))
    /\ LET last == batch_end(Records(c), batch_start[c])
           r    == apply_batch_neon(req[c].key, img[c], Records(c), batch_start[c], last)
       IN  IF r.st = "ok"
           THEN /\ log' = [log EXCEPT ![c] =
                            Append(@, LogEntry(TRUE, batch_start[c], last, img[c],
                                               Some(r.page), None))]
                /\ req' = [req EXCEPT ![c].base_img = Some(r.page)]
                /\ Proceed(c, r.page, last)
           ELSE /\ Return(c, r)
                /\ UNCHANGED <<log, req>>
    /\ UNCHANGED <<scenario, io, mutex, process, live, launches>>

ApplyBatchNeon(c) ==
    /\ pc[c] = "batch"
    /\ can_apply_in_neon(BatchRec(c))
    /\ LET last == batch_end(Records(c), batch_start[c])
           r    == apply_batch_neon(req[c].key, img[c], Records(c), batch_start[c], last)
       IN  IF r.st = "ok"
           THEN /\ log' = [log EXCEPT ![c] =
                            Append(@, LogEntry(TRUE, batch_start[c], last, img[c],
                                               Some(r.page), None))]
                /\ Proceed(c, r.page, last)
           ELSE /\ Return(c, r)
                /\ UNCHANGED log
    /\ UNCHANGED <<scenario, req, io, mutex, process, live, launches>>

(***************************************************************************)
(* A batch for the child: apply_batch_postgres up to the loop of           *)
(* apply_wal_records (lock, launch, serialization, the blind write).       *)
(***************************************************************************)
\* mutant: the failed process is killed but left in the mutex
FailChildRun_keep(c, pid, children, e) ==
    /\ process' = Some(pid)
    /\ live' = kill_and_wait(children, pid)
    /\ mutex' = None
    /\ Return(c, WalRedoIoError(e))

\* mutant: the failed process is taken out of the mutex but not killed
FailChildRun_nokill(c, pid, children, e) ==
    /\ process' = None
    /\ live' = children
    /\ mutex' = None
    /\ Return(c, WalRedoIoError(e))

\* "if result.is_err()": the process is taken out of the mutex and killed,
\* the guard is dropped and the error returned
FailChildRun(c, pid, children, e) ==
    /\ process' = None
    /\ live' = kill_and_wait(children, pid)
    /\ mutex' = None
    /\ Return(c, WalRedoIoError(e))

ApplyBatchPostgres(c) ==
    /\ pc[c] = "batch"
    /\ ~can_apply_in_neon(BatchRec(c))
    /\ IF ~key_to_rel_block_ok(req[c].key)
       THEN /\ Return(c, Err("InvalidRecord"))
            /\ UNCHANGED <<io, log, mutex, process, live, launches>>
       ELSE /\ MutexFree
            /\ \E lo \in (IF process = None THEN LaunchOutcomes ELSE {"ok"}) :
                 LET spawn    == process = None /\ lo # "no_child"
                     pid      == IF process = None THEN launches + 1 ELSE Unwrap(process)
                     children == IF process = None /\ lo = "ok" THEN live \cup {pid} ELSE live
                     last     == batch_end(Records(c), batch_start[c])
                     len      == writebuf_len(build_writebuf(req[c].key, img[c], Records(c),
                                                             batch_start[c], last))
                 IN  /\ spawn => launches < MaxLaunches
                     /\ launches' = IF spawn THEN launches + 1 ELSE launches
                     /\ IF lo # "ok"
                        THEN \* launch(...)? : the error is returned, the slot stays empty
                             /\ Return(c, WalRedoIoError(IoErr("Other", "launch")))
                             /\ UNCHANGED <<io, log, mutex, process, live>>
                        ELSE /\ log' = [log EXCEPT ![c] =
                                         Append(@, LogEntry(FALSE, batch_start[c], last,
                                                            img[c], None, Some(pid)))]
                             /\ \E w \in WriteResults(len) :
                                  IF w.ok
                                  THEN /\ mutex' = Some(c)
                                       /\ process' = Some(pid)
                                       /\ live' = children
                                       /\ io' = [io EXCEPT ![c] =
                                                  [len |-> len, nwrite |-> w.n, nresult |-> 0,
                                                   did |-> {"stdin"}, logged |-> 0,
                                                   eof |-> {}]]
                                       /\ pc' = [pc EXCEPT ![c] = "io"]
                                       /\ UNCHANGED <<img, batch_start, ret>>
                                  ELSE /\ io' = [io EXCEPT ![c] =
                                                  [len |-> len, nwrite |-> 0, nresult |-> 0,
                                                   did |-> {"stdin"}, logged |-> 0,
                                                   eof |-> {}]]
                                       /\ FailChildRun(c, pid, children,
                                                       IoErr("Os", "write stdin"))
    /\ UNCHANGED <<scenario, req>>

(***************************************************************************)
(* One iteration of the loop of apply_wal_records, and what follows when   *)
(* it ends the loop.                                                       *)
(***************************************************************************)
\* mutant: the loop ends with the first bytes of the page
LoopDone_early(nresult) == nresult > 0

\* the negation of "while nresult < BLCKSZ.into()"
LoopDone(nresult) == nresult >= BLCKSZ

IoStep(c, ev) ==
    LET it   == apply_wal_records_iteration(io[c].nwrite, io[c].nresult, io[c].len, ev)
        last == log[c][Len(log[c])].last
    IN  /\ io' = [io EXCEPT ![c] =
                    IF it.res = "fail"
                    THEN [len |-> @.len, nwrite |-> 0, nresult |-> 0, did |-> it.did,
                          logged |-> 0, eof |-> {}]
                    ELSE [len |-> @.len, nwrite |-> it.nwrite, nresult |-> it.nresult,
                          did |-> it.did,
                          logged |-> IF "logged" \in it.did THEN ev.errread.n ELSE 0,
                          eof |-> @.eof \cup EndOfFile(it, ev)]]
        /\ IF it.res = "fail"
           THEN /\ FailChildRun(c, Unwrap(process), live, Unwrap(it.e))
                /\ UNCHANGED <<log, launches>>
           ELSE IF ~LoopDone(it.nresult)
           THEN UNCHANGED <<pc, img, batch_start, ret, log, mutex, process, live, launches>>
           ELSE \* Ok(Bytes::from(resultbuf)): the page the child wrote
                \E page \in ChildPages :
                  /\ log' = [log EXCEPT ![c][Len(log[c])].out = Some(page)]
                  /\ mutex' = None
                  /\ Proceed(c, page, last)
                  /\ UNCHANGED <<process, live, launches>>

PollIteration(c) ==
    /\ pc[c] = "io"
    /\ \E ev \in IoEvents(io[c].nwrite, io[c].nresult, io[c].len, io[c].eof) :
         IoStep(c, ev)
    /\ UNCHANGED <<scenario, req>>

(***************************************************************************)
(* launch_process(&mut self): needs exclusive access to the manager.       *)
(***************************************************************************)
LaunchProcess ==
    /\ \A c \in Callers : pc[c] \in {"idle", "returned"}
    /\ \E lo \in (IF process = None THEN LaunchOutcomes ELSE {"ok"}) :
         LET spawn == process = None /\ lo # "no_child"
         IN  /\ spawn => launches < MaxLaunches
             /\ launches' = IF spawn THEN launches + 1 ELSE launches
             /\ IF process = None /\ lo = "ok"
                THEN /\ process' = Some(launches + 1)
                     /\ live' = live \cup {launches + 1}
                ELSE UNCHANGED <<process, live>>
    /\ UNCHANGED <<scenario, pc, req, img, batch_start, io, ret, log, mutex>>

(***************************************************************************)
(* The caller is done with the result of its call; nothing of the call     *)
(* remains.                                                                *)
(***************************************************************************)
DropResult(c) ==
    /\ pc[c] = "returned"
    /\ pc' = [pc EXCEPT ![c] = "idle"]
    /\ req' = [req EXCEPT ![c] = NoReq]
    /\ ret' = [ret EXCEPT ![c] = NoRet]
    /\ log' = [log EXCEPT ![c] = << >>]
    /\ io' = [io EXCEPT ![c] = IoIdle]
    /\ UNCHANGED <<scenario, img, batch_start, mutex, process, live, launches>>

Next ==
    \/ \E c \in Callers : RequestRedo(c) /\ UNCHANGED <<wr_vars, bp_vars>>
    \/ \E c \in Callers : ApplyBatchNeon(c) /\ UNCHANGED <<wr_vars, bp_vars>>
    \/ \E c \in Callers : ApplyBatchPostgres(c) /\ UNCHANGED <<wr_vars, bp_vars>>
    \/ \E c \in Callers : PollIteration(c) /\ UNCHANGED <<wr_vars, bp_vars>>
    \/ \E c \in Callers : DropResult(c) /\ UNCHANGED <<wr_vars, bp_vars>>
    \/ LaunchProcess /\ UNCHANGED <<wr_vars, bp_vars>>

Spec == Init /\ [][Next]_vars

\* The callers are OS threads, and poll returns when a descriptor is ready
\* or the time-out has elapsed: a thread in the I/O loop eventually makes its
\* next iteration.
FairSpec == Spec /\ \A c \in Callers : WF_vars(PollIteration(c))

(***************************************************************************)
(* Properties.                                                             *)
(***************************************************************************)
IsOpaque(rec) == rec.type = "Postgres"
Returned(c) == pc[c] = "returned"
LastEntry(c) == log[c][Len(log[c])]
\* the step from a state to the next is one of caller c
Stepped(c) ==
    \/ pc'[c] # pc[c]
    \/ img'[c] # img[c]
    \/ batch_start'[c] # batch_start[c]
    \/ log'[c] # log[c]
    \/ io'[c] # io[c]
\* caller c returns from a child run that failed
ChildRunFailed(c) ==
    /\ pc[c] = "returned"
    /\ ret[c].err = "IoError"
    /\ log[c] # << >>
    /\ ~LastEntry(c).neon
    /\ LastEntry(c).out = None

\* C1: the batches a call has applied are the maximal runs of equal polarity
\* of its record list, in order; the first batch gets the caller's base image
\* and every other batch the output of the batch before it; an in-process
\* batch yields the in-process application of its records; every opaque run
\* is one invocation of the child; and a successful call has applied all the
\* runs and returns the output of the last one.
C1_MaximalRunsInOrder ==
    \A c \in Callers :
        LET L  == log[c]
            rs == req[c].records
        IN  /\ \A k \in 1..Len(L) :
                 /\ L[k].first = (IF k = 1 THEN 1 ELSE L[k - 1].last + 1)
                 /\ L[k].first <= L[k].last
                 /\ L[k].last <= Len(rs)
                 /\ \A i \in L[k].first..L[k].last : IsOpaque(rs[i][2]) = ~L[k].neon
                 /\ L[k].last < Len(rs) => IsOpaque(rs[L[k].last + 1][2]) = L[k].neon
                 /\ L[k].base = (IF k = 1 THEN req[c].base_img ELSE L[k - 1].out)
                 /\ L[k].neon =>
                      /\ L[k].child = None
                      /\ L[k].base # None
                      /\ L[k].out = Some(apply_records_neon(req[c].key, Unwrap(L[k].base), rs,
                                                            L[k].first, L[k].last).page)
                 /\ ~L[k].neon => L[k].child # None
                 /\ k < Len(L) => L[k].out # None
            /\ (Returned(c) /\ ret[c].st = "ok") =>
                 /\ L # << >>
                 /\ L[Len(L)].last = Len(rs)
                 /\ Some(ret[c].page) = L[Len(L)].out

\* the example of the spec: [A, B, C, D] has been applied as [A, B] in-process,
\* [C] by the child, [D] in-process
C1_Witness ==
    \E c \in Callers :
        /\ Returned(c) /\ ret[c].st = "ok"
        /\ req[c].records = WithLsns(<<recA, recB, recC, recD>>)
        /\ Len(log[c]) = 3
        /\ log[c][2].first = 3 /\ log[c][2].last = 3 /\ ~log[c][2].neon
        /\ log[c][2].base = Some(apply_records_neon(VMKey, VMBase, req[c].records, 1, 2).page)
        /\ log[c][2].base # Some(VMBase)
        /\ log[c][3].base = log[c][2].out
        /\ ret[c].page = apply_records_neon(VMKey, Unwrap(log[c][2].out), req[c].records,
                                            4, 4).page

\* C2: a caller inside the I/O loop of a child run holds the mutex, and no
\* other caller is inside a child run at the same time.
C2_MutualExclusion ==
    \A c \in Callers :
        pc[c] = "io" => /\ mutex = Some(c)
                        /\ \A d \in Callers \ {c} : pc[d] # "io"

\* a caller is in the middle of a child run while another waits for the mutex
C2_Witness ==
    \E c, d \in Callers :
        /\ c # d
        /\ pc[c] = "io" /\ io[c].nwrite > 0 /\ io[c].nresult > 0 /\ io[c].nresult < BLCKSZ
        /\ pc[d] = "batch" /\ IsOpaque(BatchRec(d))

\* C3: when a caller returns from a failed child run, the child of that run
\* has been killed, the process slot is empty, the mutex is released and the
\* caller gets the I/O error.
C3_FailedRunKillsChild ==
    [][\A c \in Callers :
          (pc[c] # "returned" /\ ChildRunFailed(c)') =>
              /\ process' = None
              /\ Unwrap(LastEntry(c).child)' \notin live'
              /\ mutex' = None
              /\ ret'[c].io # None]_vars

C3_Witness ==
    \E c \in Callers :
        /\ ChildRunFailed(c)
        /\ Unwrap(ret[c].io).kind = "BrokenPipe"
        /\ process = None
        /\ live = {}
        /\ launches > 0

\* C4: a timeout leaves the process slot empty, and a child run that starts
\* from an empty slot uses a child that is spawned for it (its pid is new) and
\* is running; a child run never uses a child that has been killed.
C4_FreshChildAfterFailure ==
    [][\A c \in Callers :
          /\ (pc[c] = "io" /\ ChildRunFailed(c)' /\ "timeout" \in io'[c].did) =>
                process' = None
          /\ (pc[c] = "batch" /\ pc'[c] = "io") =>
                /\ process' # None
                /\ Unwrap(process') \in live'
                /\ LastEntry(c)'.child = process'
                /\ process = None => Unwrap(process') > launches]_vars

\* a call has timed out on the first child, and a later call has got its page
\* from a second child
C4_Witness ==
    \E c, d \in Callers :
        /\ ChildRunFailed(c) /\ "timeout" \in io[c].did
        /\ LastEntry(c).child = Some(1)
        /\ Returned(d) /\ ret[d].st = "ok"
        /\ LastEntry(d).child = Some(2)
        /\ live = {2}

\* C5: a call with an empty record list returns InvalidRequest at once; the
\* process slot, the children and the mutex are as before the call.
C5_EmptyRecords ==
    [][\A c \in Callers :
          (pc[c] = "idle" /\ pc'[c] # "idle" /\ req'[c].records = << >>) =>
              /\ pc'[c] = "returned"
              /\ ret'[c] = Err("InvalidRequest")
              /\ log'[c] = << >>
              /\ UNCHANGED <<mutex, process, live, launches>>]_vars

\* an empty request has been refused while a child exists
C5_Witness ==
    \E c \in Callers :
        /\ Returned(c)
        /\ req[c].records = << >>
        /\ ret[c] = Err("InvalidRequest")
        /\ process # None

\* C6: a call whose records are all in-process records is served in one
\* in-process batch: its step leaves the mutex, the process slot and the
\* children alone and does not change the caller's base image, and the call
\* is never inside a child run.
C6_NeonOnlyNoChild ==
    [][\A c \in Callers :
          LET rs == req[c].records
          IN  (pc[c] = "batch" /\ (\A i \in 1..Len(rs) : ~IsOpaque(rs[i][2])) /\ Stepped(c)) =>
                  /\ pc'[c] = "returned"
                  /\ req'[c] = req[c]
                  /\ UNCHANGED <<mutex, process, live, launches>>
                  /\ \A k \in 1..Len(log'[c]) : log'[c][k].child = None]_vars

\* an in-process call has returned a page while another caller held the mutex
C6_Witness ==
    \E c, d \in Callers :
        /\ Returned(c) /\ ret[c].st = "ok"
        /\ \A i \in 1..Len(req[c].records) : ~IsOpaque(req[c].records[i][2])
        /\ ret[c].page # Unwrap(req[c].base_img)
        /\ mutex = Some(d) /\ d # c

\* C7: a call without base image whose first record is an in-process record
\* applies no batch and returns InvalidRequest.
C7_NoBaseImage ==
    \A c \in Callers :
        LET rs == req[c].records
        IN  (rs # << >> /\ req[c].base_img = None /\ ~IsOpaque(rs[1][2])) =>
                /\ log[c] = << >>
                /\ \/ pc[c] = "batch" /\ batch_start[c] = 1
                   \/ Returned(c) /\ ret[c] = Err("InvalidRequest")

\* such a call, with an opaque run after the first run, has returned
C7_Witness ==
    \E c \in Callers :
        /\ Returned(c)
        /\ req[c].base_img = None
        /\ Len(req[c].records) >= 2
        /\ ~IsOpaque(req[c].records[1][2]) /\ IsOpaque(req[c].records[2][2])
        /\ ret[c] = Err("InvalidRequest")

\* C8, as claimed: a call that ends by a timeout of poll returns the error
\* kind Timeout.
C8_TimeoutKind ==
    \A c \in Callers :
        (Returned(c) /\ "timeout" \in io[c].did) => ret[c].err = "Timeout"

\* C8, amended: a call that ends by a timeout of poll returns IoError, which
\* wraps an io::Error of kind Other with the message "WAL redo timed out".
C8_TimeoutIsIoError ==
    \A c \in Callers :
        (Returned(c) /\ "timeout" \in io[c].did) =>
            /\ ret[c].err = "IoError"
            /\ ret[c].err \in WalRedoError
            /\ ret[c].io = Some(IoErr("Other", "WAL redo timed out"))

C8_Witness ==
    \E c \in Callers :
        /\ Returned(c) /\ "timeout" \in io[c].did
        /\ ret[c].err = "IoError"

\* C9: at most one wal-redo child is running, it is the one in the process
\* slot, and a child is spawned only when none is running and the slot is
\* empty.
C9_AtMostOneChild ==
    /\ [](/\ Cardinality(live) <= 1
          /\ live = process
          /\ launches = 0 => live = {})
    /\ [][launches' > launches => (live = {} /\ process = None)]_vars

\* the second child is running after the first one has been killed
C9_Witness == launches = 2 /\ live = {2} /\ process = Some(2)

\* C10: ClogSetCommitted applied twice with the same arguments to a CLOG page
\* of BLCKSZ or BLCKSZ + 8 bytes yields the page that one application yields:
\* the xids are COMMITTED and the page ends with the timestamp, once.
C10_ClogSetCommittedIdempotent ==
    \A c \in Callers :
        LET rs   == req[c].records
            rec  == rs[1][2]
            base == Unwrap(req[c].base_img)
        IN  (/\ Returned(c) /\ ret[c].st = "ok"
             /\ Len(rs) = 2 /\ rs[1][2] = rs[2][2] /\ rec.type = "ClogSetCommitted"
             /\ base.len \in {BLCKSZ, BLCKSZ + TIMESTAMP_SIZE}) =>
                /\ ret[c].page = apply_record_neon(req[c].key, base, rec).page
                /\ ret[c].page.len = BLCKSZ + TIMESTAMP_SIZE
                /\ PageTail(ret[c].page, TIMESTAMP_SIZE) = to_be_bytes(rec.timestamp)
                /\ PageTruncate(ret[c].page, BLCKSZ).b =
                     PageTruncate(apply_record_neon(req[c].key, base, rec).page, BLCKSZ).b
                /\ \A k \in 1..Len(rec.xids) :
                     transaction_id_get_status(rec.xids[k], ret[c].page)
                        = TRANSACTION_STATUS_COMMITTED

\* the record has been applied twice to a page that had a timestamp
C10_Witness ==
    \E c \in Callers :
        /\ Returned(c) /\ ret[c].st = "ok"
        /\ req[c].records = WithLsns(<<recK, recK>>)
        /\ req[c].base_img = Some(ClogBaseTs)
        /\ PageTail(ret[c].page, TIMESTAMP_SIZE) # PageTail(ClogBaseTs, TIMESTAMP_SIZE)

(***************************************************************************)
(* The WAL receiver's connection manager                                   *)
(* (pageserver/src/walreceiver/connection_manager.rs).                     *)
(*                                                                         *)
(* Instants and durations are integers, in milliseconds.  A retry          *)
(* duration (f64 seconds in the code) is an integer number of              *)
(* 1/81920 s, the unit in which every value of the sequence                *)
(* 0.1 * 1.5^k below the maximum is exact.                                 *)
(***************************************************************************)
\* number of steps of the clock in one behaviour
MaxTicks == 3
\* number of steps of the clock in one behaviour of the "backoff" scenario
MaxBackoffTicks == 15
\* number of steps of the clock in one behaviour of the "lifecycle" scenario
MaxLifecycleTicks == 1

\* units of a retry duration in one second
BACKOFF_UNITS_PER_SECOND == 81920
\* 0.1 s
WALCONNECTION_RETRY_MIN_BACKOFF_SECONDS == 8192
\* 15.0 s
WALCONNECTION_RETRY_MAX_BACKOFF_SECONDS == 1228800
\* retry_duration_seconds * WALCONNECTION_RETRY_BACKOFF_MULTIPLIER (1.5)
WALCONNECTION_RETRY_BACKOFF_MULTIPLIER(d) == (d * 3) \div 2
\* (retry_duration_seconds * 1000.0) as i64
retry_duration_millis(d) == (d * 1000) \div BACKOFF_UNITS_PER_SECOND

\* Lsn::INVALID
INVALID == 0

\* the tenant's configuration of the manager
wal_connect_timeout == 500
lagging_wal_timeout == 1000
max_lsn_wal_lag == 2
\* Timeline::get_last_record_lsn
get_last_record_lsn == 1

Min(a, b) == IF a <= b THEN a ELSE b
Max(a, b) == IF a >= b THEN a ELSE b
\* the least element of a non-empty set of integers
SetMin(S) == CHOOSE x \in S : \A y \in S : x <= y
\* HashMap::remove
MapRemove(m, k) == [x \in DOMAIN m \ {k} |-> m[x]]
\* HashMap::insert
MapInsert(m, k, v) == [x \in DOMAIN m \cup {k} |-> IF x = k THEN v ELSE m[x]]

\* the safekeepers
NodeIds == {1, 2, 3}

\* scenario "candidates": three safekeepers, connections that end without a report;
\* scenario "status": two safekeepers, connections that report their status and
\* do not end by themselves;
\* scenario "backoff": one safekeeper over a long time, connections that report
\* processed WAL or end;
\* scenario "lifecycle": two safekeepers, a timeline that changes its state, a
\* broker subscription that fails, and a shutdown request
WalreceiverScenarios == {"candidates", "status", "backoff", "lifecycle"}
\* the step of the clock
TickMillis == IF scenario = "backoff" THEN 16000 ELSE 500

\* SafekeeperTimelineInfo: the broker's message about one safekeeper
SafekeeperTimelineInfo(sk, lsn, connstr) ==
    [safekeeper_id |-> sk, commit_lsn |-> lsn, safekeeper_connstr |-> connstr]
\* the messages the broker may deliver
BrokerUpdates ==
    CASE scenario = "candidates" ->
            {SafekeeperTimelineInfo(1, 2, "sk1:5454"),
             SafekeeperTimelineInfo(2, 1, "sk2:5454"),
             SafekeeperTimelineInfo(2, 3, "sk2:5454"),
             SafekeeperTimelineInfo(3, 3, ""),
             SafekeeperTimelineInfo(3, 3, "sk3:port"),
             SafekeeperTimelineInfo(3, 0, "sk3:5454")}
      [] scenario = "status" ->
            {SafekeeperTimelineInfo(1, 1, "sk1:5454")}
            \cup {SafekeeperTimelineInfo(2, l, "sk2:5454") : l \in 1..3}
      [] scenario = "lifecycle" ->
            {SafekeeperTimelineInfo(1, 1, "sk1:5454"),
             SafekeeperTimelineInfo(2, 3, "sk2:5454")}
      [] OTHER -> {SafekeeperTimelineInfo(1, 1, "sk1:5454")}

\* WalConnectionStatus
WalConnectionStatus(conn, wal, lcu, lwu, streaming, commit) ==
    [is_connected |-> conn, has_processed_wal |-> wal,
     latest_connection_update |-> lcu, latest_wal_update |-> lwu,
     streaming_lsn |-> streaming, commit_lsn |-> commit]
\* the statuses the streaming sub-task may report after status st: it has connected,
\* it has received a keep-alive with the safekeeper's commit_lsn, or it has received
\* WAL up to s
ProgressStatuses(st) ==
    IF scenario = "candidates" THEN {}
    ELSE IF scenario = "backoff"
    THEN {WalConnectionStatus(TRUE, w, now, now, Some(1), Some(1)) : w \in BOOLEAN}
    ELSE IF scenario = "lifecycle"
    THEN {WalConnectionStatus(TRUE, FALSE, now, now, Some(1), Some(1))}
    ELSE {WalConnectionStatus(TRUE, st.has_processed_wal, now, st.latest_wal_update,
                              st.streaming_lsn, st.commit_lsn)}
         \cup {WalConnectionStatus(TRUE, st.has_processed_wal, now, st.latest_wal_update,
                                   st.streaming_lsn, Some(c)) : c \in 1..2}
         \cup {WalConnectionStatus(TRUE, FALSE, now, now, Some(s), Some(c)) :
                   <<s, c>> \in {x \in (1..2) \X (1..2) : x[1] <= x[2]}}

RetryInfo(next, d) == [next_retry_at |-> next, retry_duration_seconds |-> d]
BrokerSkTimeline(info, t) == [timeline |-> info, latest_update |-> t]
NewCommittedWAL(lsn, t) == [lsn |-> lsn, discovered_at |-> t]
WalConnection(started, sk, status, discovered) ==
    [started_at |-> started, sk_id |-> sk, status |-> status,
     discovered_new_wal |-> discovered]
NewWalConnectionCandidate(sk, connconf, reason) ==
    [safekeeper_id |-> sk, wal_source_connconf |-> connconf, reason |-> reason]

\* ReconnectReason
NoExistingConnection == [kind |-> "NoExistingConnection"]
LaggingWal(current, new, threshold) ==
    [kind |-> "LaggingWal", current_commit_lsn |-> current, new_commit_lsn |-> new,
     threshold |-> threshold]
NoWalTimeout(current_lsn, current_commit, candidate_commit, last, check, threshold) ==
    [kind |-> "NoWalTimeout", current_lsn |-> current_lsn,
     current_commit_lsn |-> current_commit, candidate_commit_lsn |-> candidate_commit,
     last_wal_interaction |-> last, check_time |-> check, threshold |-> threshold]
NoKeepAlives(last, check, threshold) ==
    [kind |-> "NoKeepAlives", last_keep_alive |-> last, check_time |-> check,
     threshold |-> threshold]

\* chrono::Duration::to_std: Err for a negative duration
to_std(d) == IF d >= 0 THEN Some(d) ELSE None

\* parse_host_port: a port that is not a number does not parse
parse_host_port_ok(connstr) == connstr # "sk3:port"
\* wal_stream_connection_config: Ok(config) or Err
wal_stream_connection_config(connstr) ==
    IF parse_host_port_ok(connstr) THEN Some([host_port |-> connstr]) ELSE None

\* the closure of cleanup_old_candidates' retain
should_retain(broker_info, t) ==
    LET time_since_latest_broker_update == to_std(t - broker_info.latest_update)
    IN  IF time_since_latest_broker_update # None
        THEN Unwrap(time_since_latest_broker_update) < lagging_wal_timeout
        ELSE TRUE

\* mutant: the retry records of the removed candidates are kept
cleanup_old_candidates_keep_retries(cands, retries, t) ==
    [wal_stream_candidates |->
        [n \in {m \in DOMAIN cands : should_retain(cands[m], t)} |-> cands[n]],
     wal_connection_retries |-> retries,
     node_ids_to_remove |-> {m \in DOMAIN cands : ~should_retain(cands[m], t)}]

\* WalreceiverState::cleanup_old_candidates
cleanup_old_candidates(cands, retries, t) ==
    LET retained == {n \in DOMAIN cands : should_retain(cands[n], t)}
        removed == DOMAIN cands \ retained
    IN  [wal_stream_candidates |-> [n \in retained |-> cands[n]],
         wal_connection_retries |-> [n \in DOMAIN retries \ removed |-> retries[n]],
         node_ids_to_remove |-> removed]

\* mutant: the retry cooldown is not looked at
applicable_connection_candidates_no_cooldown(cands, retries, t) ==
    {sk_id \in DOMAIN cands :
        /\ cands[sk_id].timeline.commit_lsn # INVALID
        /\ cands[sk_id].timeline.safekeeper_connstr # ""
        /\ wal_stream_connection_config(cands[sk_id].timeline.safekeeper_connstr) # None}

\* WalreceiverState::applicable_connection_candidates: the node ids of the iterator
applicable_connection_candidates(cands, retries, t) ==
    {sk_id \in DOMAIN cands :
        /\ cands[sk_id].timeline.commit_lsn # INVALID
        /\ LET next_retry_at == IF sk_id \in DOMAIN retries
                                THEN retries[sk_id].next_retry_at ELSE None
           IN  next_retry_at = None \/ Unwrap(next_retry_at) <= t
        /\ cands[sk_id].timeline.safekeeper_connstr # ""
        /\ wal_stream_connection_config(cands[sk_id].timeline.safekeeper_connstr) # None}

\* mutant: the connected node is not omitted
select_connection_candidate_no_omit(cands, retries, t, node_to_omit) ==
    LET left == applicable_connection_candidates(cands, retries, t)
    IN  {sk_id \in left :
            \A other \in left :
                cands[other].timeline.commit_lsn <= cands[sk_id].timeline.commit_lsn}

\* mutant: the greatest node id instead of the greatest commit_lsn
select_connection_candidate_by_id(cands, retries, t, node_to_omit) ==
    LET left == {sk_id \in applicable_connection_candidates(cands, retries, t) :
                    Some(sk_id) # node_to_omit}
    IN  {sk_id \in left : \A other \in left : other <= sk_id}

\* WalreceiverState::select_connection_candidate: the node ids max_by_key may return
\* (among equal keys it returns the last one in the HashMap's iteration order,
\* which is arbitrary); the empty set stands for None
select_connection_candidate(cands, retries, t, node_to_omit) ==
    LET left == {sk_id \in applicable_connection_candidates(cands, retries, t) :
                    Some(sk_id) # node_to_omit}
    IN  {sk_id \in left :
            \A other \in left :
                cands[other].timeline.commit_lsn <= cands[sk_id].timeline.commit_lsn}

\* mutant: the keep-alive age is compared with the lagging-WAL timeout
no_keep_alives_wrong_timeout(existing, t) ==
    LET latest_interaciton == to_std(t - existing.status.latest_connection_update)
    IN  latest_interaciton # None /\ Unwrap(latest_interaciton) > lagging_wal_timeout

\* mutant: an age equal to wal_connect_timeout counts as expired
no_keep_alives_inclusive(existing, t) ==
    LET latest_interaciton == to_std(t - existing.status.latest_connection_update)
    IN  latest_interaciton # None /\ Unwrap(latest_interaciton) >= wal_connect_timeout

\* next_connection_candidate: no keep-alive message for longer than wal_connect_timeout
no_keep_alives(existing, t) ==
    LET latest_interaciton == to_std(t - existing.status.latest_connection_update)
    IN  latest_interaciton # None /\ Unwrap(latest_interaciton) > wal_connect_timeout

\* mutant: an advantage equal to the threshold does not count
lagging_wal_strict(existing, new_commit_lsn) ==
    /\ existing.status.commit_lsn # None
    /\ new_commit_lsn - Unwrap(existing.status.commit_lsn) > max_lsn_wal_lag

\* next_connection_candidate: the candidate has much more WAL than the connection
\* (checked_sub is None when the candidate is behind)
lagging_wal(existing, new_commit_lsn) ==
    /\ existing.status.commit_lsn # None
    /\ LET current_commit_lsn == Unwrap(existing.status.commit_lsn)
           new_sk_lsn_advantage == IF new_commit_lsn >= current_commit_lsn
                                   THEN Some(new_commit_lsn - current_commit_lsn)
                                   ELSE None
       IN  new_sk_lsn_advantage # None /\ Unwrap(new_sk_lsn_advantage) >= max_lsn_wal_lag

\* next_connection_candidate's current_lsn
current_lsn(existing) ==
    IF existing.status.streaming_lsn # None
    THEN Unwrap(existing.status.streaming_lsn)
    ELSE get_last_record_lsn

\* next_connection_candidate's current_commit_lsn
current_commit_lsn(existing) ==
    IF existing.status.commit_lsn # None
    THEN Unwrap(existing.status.commit_lsn)
    ELSE current_lsn(existing)

\* mutant: a candidate that is not ahead is taken after the timeout as well
no_wal_timeout_any(existing, candidate_commit_lsn, since, t) ==
    /\ since # None
    /\ LET waiting_for_new_wal == to_std(t - Unwrap(since))
       IN  /\ waiting_for_new_wal # None
           /\ Unwrap(waiting_for_new_wal) > lagging_wal_timeout

\* mutant: the discovery is made anew at every evaluation
discovered_new_wal_refreshed(existing, candidate_commit_lsn, t) ==
    IF candidate_commit_lsn > current_commit_lsn(existing)
    THEN Some(NewCommittedWAL(candidate_commit_lsn, t))
    ELSE None

\* mutant: a stored discovery is kept although the connection has caught up
discovered_new_wal_stale(existing, candidate_commit_lsn, t) ==
    IF existing.discovered_new_wal # None THEN existing.discovered_new_wal
    ELSE IF candidate_commit_lsn > current_commit_lsn(existing)
         THEN Some(NewCommittedWAL(candidate_commit_lsn, t))
         ELSE None

\* next_connection_candidate's discovered_new_wal
discovered_new_wal(existing, candidate_commit_lsn, t) ==
    LET kept == {new_wal \in existing.discovered_new_wal :
                    new_wal.lsn > current_commit_lsn(existing)}
    IN  IF kept # None THEN kept
        ELSE IF candidate_commit_lsn > current_commit_lsn(existing)
             THEN Some(NewCommittedWAL(candidate_commit_lsn, t))
             ELSE None

\* next_connection_candidate's waiting_for_new_lsn_since
waiting_for_new_lsn_since(existing, discovered) ==
    IF current_lsn(existing) < current_commit_lsn(existing)
    THEN Some(existing.status.latest_wal_update)
    ELSE {Max(new_wal.discovered_at, existing.status.latest_wal_update) :
            new_wal \in discovered}

\* next_connection_candidate: no WAL for longer than lagging_wal_timeout while the
\* candidate has more
no_wal_timeout(existing, candidate_commit_lsn, since, t) ==
    /\ since # None
    /\ LET waiting_for_new_wal == to_std(t - Unwrap(since))
       IN  /\ waiting_for_new_wal # None
           /\ candidate_commit_lsn > current_commit_lsn(existing)
           /\ Unwrap(waiting_for_new_wal) > lagging_wal_timeout

Evaluation(candidate, connection) == [candidate |-> candidate, wal_connection |-> connection]

\* next_connection_candidate with an existing connection and a selected candidate
existing_connection_candidate(existing, new_sk_id, new_safekeeper_broker_data, t) ==
    LET connection == Some(existing)
        new_wal_source_connconf ==
            Unwrap(wal_stream_connection_config(new_safekeeper_broker_data.safekeeper_connstr))
        Candidate(reason) ==
            Some(NewWalConnectionCandidate(new_sk_id, new_wal_source_connconf, reason))
        candidate_commit_lsn == new_safekeeper_broker_data.commit_lsn
        discovered == discovered_new_wal(existing, candidate_commit_lsn, t)
        since == waiting_for_new_lsn_since(existing, discovered)
    IN
    IF no_keep_alives(existing, t)
    THEN Evaluation(Candidate(NoKeepAlives(Some(existing.status.latest_connection_update),
                                           t, wal_connect_timeout)), connection)
    ELSE IF ~existing.status.is_connected
    THEN Evaluation(None, connection)
    ELSE IF lagging_wal(existing, candidate_commit_lsn)
    THEN Evaluation(Candidate(LaggingWal(Unwrap(existing.status.commit_lsn),
                                         candidate_commit_lsn, max_lsn_wal_lag)), connection)
    ELSE IF no_wal_timeout(existing, candidate_commit_lsn, since, t)
    THEN Evaluation(Candidate(NoWalTimeout(current_lsn(existing),
                                           current_commit_lsn(existing),
                                           candidate_commit_lsn,
                                           Some(existing.status.latest_wal_update),
                                           t, lagging_wal_timeout)), connection)
    ELSE Evaluation(None, Some([existing EXCEPT !.discovered_new_wal = discovered]))

\* mutant: without a connection a candidate is taken only if it is ahead of the
\* timeline by max_lsn_wal_lag
next_connection_candidate_lag_only(connection, cands, selected, t) ==
    IF selected = None THEN Evaluation(None, connection)
    ELSE IF connection # None
    THEN existing_connection_candidate(Unwrap(connection), Unwrap(selected),
                                       cands[Unwrap(selected)].timeline, t)
    ELSE IF cands[Unwrap(selected)].timeline.commit_lsn - get_last_record_lsn >= max_lsn_wal_lag
    THEN Evaluation(Some(NewWalConnectionCandidate(Unwrap(selected),
             Unwrap(wal_stream_connection_config(
                        cands[Unwrap(selected)].timeline.safekeeper_connstr)),
             NoExistingConnection)), connection)
    ELSE Evaluation(None, connection)

\* WalreceiverState::next_connection_candidate after cleanup_old_candidates:
\* selected is the result of select_connection_candidate, a node id or None
next_connection_candidate(connection, cands, selected, t) ==
    IF selected = None THEN Evaluation(None, connection)
    ELSE IF connection # None
    THEN existing_connection_candidate(Unwrap(connection), Unwrap(selected),
                                       cands[Unwrap(selected)].timeline, t)
    ELSE Evaluation(Some(NewWalConnectionCandidate(Unwrap(selected),
             Unwrap(wal_stream_connection_config(
                        cands[Unwrap(selected)].timeline.safekeeper_connstr)),
             NoExistingConnection)), connection)

\* mutant: the next retry duration is not clamped to the maximum
next_retry_duration_unclamped(d) ==
    Max(WALCONNECTION_RETRY_BACKOFF_MULTIPLIER(d), WALCONNECTION_RETRY_MIN_BACKOFF_SECONDS)

\* drop_old_connection's next_retry_duration
next_retry_duration(d) ==
    Max(Min(WALCONNECTION_RETRY_BACKOFF_MULTIPLIER(d), WALCONNECTION_RETRY_MAX_BACKOFF_SECONDS),
        WALCONNECTION_RETRY_MIN_BACKOFF_SECONDS)

\* mutant: the stored backoff is multiplied before next_retry_at is set
drop_old_connection_multiply_first(connection, retries) ==
    IF connection = None THEN retries
    ELSE
    LET dropped == Unwrap(connection)
        retry == IF dropped.sk_id \in DOMAIN retries
                 THEN retries[dropped.sk_id]
                 ELSE RetryInfo(None, WALCONNECTION_RETRY_MIN_BACKOFF_SECONDS)
        next == next_retry_duration(retry.retry_duration_seconds)
    IN  MapInsert(retries, dropped.sk_id,
            RetryInfo(Some(dropped.started_at + retry_duration_millis(next)), next))

\* WalreceiverState::drop_old_connection: the retry records after the drop
\* (the connection itself is taken, and None afterwards)
drop_old_connection(connection, retries) ==
    IF connection = None THEN retries
    ELSE
    LET dropped == Unwrap(connection)
        retry == IF dropped.sk_id \in DOMAIN retries
                 THEN retries[dropped.sk_id]
                 ELSE RetryInfo(None, WALCONNECTION_RETRY_MIN_BACKOFF_SECONDS)
    IN  MapInsert(retries, dropped.sk_id,
            RetryInfo(Some(dropped.started_at
                           + retry_duration_millis(retry.retry_duration_seconds)),
                      next_retry_duration(retry.retry_duration_seconds)))

\* the least upper bound of a non-empty set of integers
SetMax(S) == CHOOSE x \in S : \A y \in S : x >= y

\* mutant: the sleep lasts until the latest pending deadline
time_until_next_retry_latest(retries, t) ==
    LET future == {Unwrap(retries[n].next_retry_at) :
                      n \in {m \in DOMAIN retries : /\ retries[m].next_retry_at # None
                                                    /\ Unwrap(retries[m].next_retry_at) > t}}
    IN  IF future = {} THEN None ELSE Some(SetMax(future))

\* WalreceiverState::time_until_next_retry, as the instant at which the sleep ends
time_until_next_retry(retries, t) ==
    LET future == {Unwrap(retries[n].next_retry_at) :
                      n \in {m \in DOMAIN retries : /\ retries[m].next_retry_at # None
                                                    /\ Unwrap(retries[m].next_retry_at) > t}}
    IN  IF future = {} THEN None ELSE Some(SetMin(future))

\* WalreceiverState::register_timeline_update
register_timeline_update(cands, timeline_update, t) ==
    MapInsert(cands, timeline_update.safekeeper_id, BrokerSkTimeline(timeline_update, t))

\* the loop has handled an event and goes on to next_connection_candidate
Handled(kind, removed) ==
    /\ mgr_pc' = "evaluate"
    /\ handled' = [kind |-> kind, removed |-> removed]
    /\ node_ids_to_remove' = {}
    /\ UNCHANGED <<now, new_candidate, sleep_until, timeline_state, state_sender,
                   shutdown_requested, dropped_connection>>

\* HashMap::remove's result: the value removed, if any
Removed(m, k) == IF k \in DOMAIN m THEN Some(m[k]) ELSE None

\* TaskEvent::Update(TaskStateUpdate::Init | TaskStateUpdate::Started)
TaskInitOrStarted ==
    /\ mgr_pc = "select"
    /\ wal_connection # None
    /\ Handled("started", None)
    /\ UNCHANGED <<wal_connection, wal_connection_retries, wal_stream_candidates,
                   running_tasks>>

\* mutant: every progress report clears the retry record
TaskProgress_always_clear(status) ==
    /\ mgr_pc = "select"
    /\ wal_connection # None
    /\ wal_connection_retries' =
           MapRemove(wal_connection_retries, Unwrap(wal_connection).sk_id)
    /\ wal_connection' = Some([Unwrap(wal_connection) EXCEPT !.status = status])
    /\ Handled("progress", Removed(wal_connection_retries, Unwrap(wal_connection).sk_id))
    /\ UNCHANGED <<wal_stream_candidates, running_tasks>>

\* TaskEvent::Update(TaskStateUpdate::Progress(status))
TaskProgress(status) ==
    /\ mgr_pc = "select"
    /\ wal_connection # None
    /\ wal_connection_retries' =
           IF status.has_processed_wal
           THEN MapRemove(wal_connection_retries, Unwrap(wal_connection).sk_id)
           ELSE wal_connection_retries
    /\ wal_connection' = Some([Unwrap(wal_connection) EXCEPT !.status = status])
    /\ Handled("progress",
               IF status.has_processed_wal
               THEN Removed(wal_connection_retries, Unwrap(wal_connection).sk_id)
               ELSE None)
    /\ UNCHANGED <<wal_stream_candidates, running_tasks>>

\* TaskEvent::End: the streaming sub-task has finished
TaskEnd ==
    /\ mgr_pc = "select"
    /\ scenario # "status"
    /\ wal_connection # None
    /\ wal_connection_retries' = drop_old_connection(wal_connection, wal_connection_retries)
    /\ wal_connection' = None
    /\ running_tasks' = running_tasks \ {Unwrap(wal_connection).sk_id}
    /\ Handled("end", None)
    /\ UNCHANGED wal_stream_candidates

\* a message of the broker subscription
BrokerUpdate(timeline_update) ==
    /\ mgr_pc = "select"
    /\ wal_stream_candidates' =
           register_timeline_update(wal_stream_candidates, timeline_update, now)
    /\ Handled("broker", None)
    /\ UNCHANGED <<wal_connection, wal_connection_retries, running_tasks>>

\* the sleep of time_until_next_retry has elapsed
RetryTimer ==
    /\ mgr_pc = "select"
    /\ sleep_until # None
    /\ now >= Unwrap(sleep_until)
    /\ Handled("timer", None)
    /\ UNCHANGED <<wal_connection, wal_connection_retries, wal_stream_candidates,
                   running_tasks>>

\* time passes while the manager awaits an event or an Active timeline
Tick ==
    /\ mgr_pc \in {"select", "wait_active"}
    /\ now + TickMillis <=
           TickMillis * (CASE scenario = "backoff" -> MaxBackoffTicks
                           [] scenario = "lifecycle" -> MaxLifecycleTicks
                           [] OTHER -> MaxTicks)
    /\ now' = now + TickMillis
    /\ UNCHANGED <<mgr_pc, wal_connection, wal_connection_retries, wal_stream_candidates,
                   new_candidate, sleep_until, handled, node_ids_to_remove,
                   timeline_state, state_sender, shutdown_requested, running_tasks,
                   dropped_connection>>

\* if let Some(new_candidate) = walreceiver_state.next_connection_candidate()
Evaluate ==
    /\ mgr_pc = "evaluate"
    /\ LET cleaned == cleanup_old_candidates(wal_stream_candidates,
                                             wal_connection_retries, now)
           node_to_omit == {Unwrap(wal_connection).sk_id : x \in wal_connection}
           selection == select_connection_candidate(cleaned.wal_stream_candidates,
                            cleaned.wal_connection_retries, now, node_to_omit)
       IN  /\ wal_stream_candidates' = cleaned.wal_stream_candidates
           /\ wal_connection_retries' = cleaned.wal_connection_retries
           /\ node_ids_to_remove' = cleaned.node_ids_to_remove
           /\ \E selected \in (IF selection = {} THEN {None}
                               ELSE {Some(sk_id) : sk_id \in selection}) :
                LET evaluation == next_connection_candidate(wal_connection,
                                      cleaned.wal_stream_candidates, selected, now)
                IN  /\ new_candidate' = evaluation.candidate
                    /\ wal_connection' = evaluation.wal_connection
                    /\ IF evaluation.candidate = None
                       THEN /\ mgr_pc' = "select"
                            /\ sleep_until' =
                                   time_until_next_retry(cleaned.wal_connection_retries, now)
                       ELSE /\ mgr_pc' = "change"
                            /\ UNCHANGED sleep_until
    /\ handled' = NoEvent
    /\ UNCHANGED <<now, timeline_state, state_sender, shutdown_requested, running_tasks,
                   dropped_connection>>

\* the streaming sub-task of a new connection to safekeeper sk_id, spawned at t
NewConnection(sk_id, t) ==
    WalConnection(t, sk_id, WalConnectionStatus(FALSE, FALSE, t, t, None, None), None)

\* mutant: the new sub-task is spawned without the old one's shutdown being awaited
ChangeConnection_no_await ==
    /\ mgr_pc = "change"
    /\ LET new == Unwrap(new_candidate)
           retries == drop_old_connection(wal_connection, wal_connection_retries)
       IN  /\ wal_connection_retries' = retries
           /\ wal_connection' = Some(NewConnection(new.safekeeper_id, now))
           /\ running_tasks' = running_tasks \cup {new.safekeeper_id}
           /\ sleep_until' = time_until_next_retry(retries, now)
    /\ new_candidate' = None
    /\ mgr_pc' = "select"
    /\ UNCHANGED <<now, wal_stream_candidates, handled, node_ids_to_remove,
                   timeline_state, state_sender, shutdown_requested, dropped_connection>>

\* WalreceiverState::change_connection up to its first suspension point: without a
\* connection drop_old_connection returns at once and the new sub-task is spawned
\* (followed by the top of the next iteration of the loop); with a connection,
\* drop_old_connection takes it and awaits connection_task.shutdown()
ChangeConnection ==
    /\ mgr_pc = "change"
    /\ IF wal_connection = None
       THEN /\ wal_connection' =
                   Some(NewConnection(Unwrap(new_candidate).safekeeper_id, now))
            /\ running_tasks' = running_tasks \cup {Unwrap(new_candidate).safekeeper_id}
            /\ sleep_until' = time_until_next_retry(wal_connection_retries, now)
            /\ new_candidate' = None
            /\ mgr_pc' = "select"
            /\ UNCHANGED dropped_connection
       ELSE /\ dropped_connection' = wal_connection
            /\ wal_connection' = None
            /\ mgr_pc' = "shutdown_old"
            /\ UNCHANGED <<running_tasks, sleep_until, new_candidate>>
    /\ UNCHANGED <<now, wal_connection_retries, wal_stream_candidates, handled,
                   node_ids_to_remove, timeline_state, state_sender, shutdown_requested>>

\* the old sub-task has shut down: the rest of drop_old_connection(true) and of
\* change_connection, and the top of the next iteration of the loop
ConnectionTaskShutdown ==
    /\ mgr_pc = "shutdown_old"
    /\ LET new == Unwrap(new_candidate)
           retries == drop_old_connection(dropped_connection, wal_connection_retries)
       IN  /\ wal_connection_retries' = retries
           /\ running_tasks' = (running_tasks \ {Unwrap(dropped_connection).sk_id})
                                   \cup {new.safekeeper_id}
           /\ wal_connection' = Some(NewConnection(new.safekeeper_id, now))
           /\ sleep_until' = time_until_next_retry(retries, now)
    /\ dropped_connection' = None
    /\ new_candidate' = None
    /\ mgr_pc' = "select"
    /\ UNCHANGED <<now, wal_stream_candidates, handled, node_ids_to_remove,
                   timeline_state, state_sender, shutdown_requested>>

\* wait_for_active_timeline: returns Continue once the timeline is Active
WaitForActiveTimeline ==
    /\ mgr_pc = "wait_active"
    /\ timeline_state = "Active"
    /\ mgr_pc' = "subscribe"
    /\ handled' = NoEvent
    /\ UNCHANGED <<now, wal_connection, wal_connection_retries, wal_stream_candidates,
                   new_candidate, sleep_until, node_ids_to_remove, timeline_state,
                   state_sender, shutdown_requested, running_tasks, dropped_connection>>

\* subscribe_for_timeline_updates: an attempt fails and is repeated after a backoff,
\* or succeeds and the inner loop starts with time_until_next_retry
SubscribeForTimelineUpdates(ok) ==
    /\ mgr_pc = "subscribe"
    /\ IF ok
       THEN /\ mgr_pc' = "select"
            /\ sleep_until' = time_until_next_retry(wal_connection_retries, now)
            /\ handled' = NoEvent
       ELSE /\ handled' = [kind |-> "subscribe_failed", removed |-> None]
            /\ UNCHANGED <<mgr_pc, sleep_until>>
    /\ UNCHANGED <<now, wal_connection, wal_connection_retries, wal_stream_candidates,
                   new_candidate, node_ids_to_remove, timeline_state, state_sender,
                   shutdown_requested, running_tasks, dropped_connection>>

\* mutant: the loop step returns ControlFlow::Break
LoopStepContinue_break(kind) ==
    /\ handled' = [kind |-> kind, removed |-> None]
    /\ wal_connection' = None
    /\ dropped_connection' = wal_connection
    /\ mgr_pc' = IF wal_connection = None THEN "returned" ELSE "shutdown"
    /\ new_candidate' = None
    /\ sleep_until' = None
    /\ UNCHANGED <<now, wal_connection_retries, wal_stream_candidates, node_ids_to_remove,
                   timeline_state, state_sender, shutdown_requested, running_tasks>>

\* connection_manager_loop_step returns ControlFlow::Continue and the manager task
\* calls it again: WalreceiverState is kept, the locals of the step are not
LoopStepContinue(kind) ==
    /\ mgr_pc' = "wait_active"
    /\ handled' = [kind |-> kind, removed |-> None]
    /\ sleep_until' = None
    /\ UNCHANGED <<now, wal_connection, wal_connection_retries, wal_stream_candidates,
                   new_candidate, node_ids_to_remove, timeline_state, state_sender,
                   shutdown_requested, running_tasks, dropped_connection>>

\* broker_subscription.message() is Err ("failed") or Ok(None) ("ended")
BrokerSubscriptionFailed(kind) ==
    /\ mgr_pc = "select"
    /\ scenario = "lifecycle"
    /\ LoopStepContinue(kind)

\* timeline_state_updates.changed() with a state other than Active
TimelineInactive ==
    /\ mgr_pc = "select"
    /\ timeline_state # "Active"
    /\ LoopStepContinue("inactive")

\* WalreceiverState::shutdown up to its suspension point: the connection is taken
\* and its sub-task's shutdown awaited; without a connection the task returns
Shutdown(kind) ==
    /\ handled' = [kind |-> kind, removed |-> None]
    /\ wal_connection' = None
    /\ dropped_connection' = wal_connection
    /\ mgr_pc' = IF wal_connection = None THEN "returned" ELSE "shutdown"
    /\ new_candidate' = None
    /\ sleep_until' = None
    /\ UNCHANGED <<now, wal_connection_retries, wal_stream_candidates, node_ids_to_remove,
                   timeline_state, state_sender, shutdown_requested, running_tasks>>

\* the sender of the state updates is dropped: wait_for_active_timeline, or the
\* inner loop, returns ControlFlow::Break
LoopStepBreak ==
    /\ ~state_sender
    /\ \/ mgr_pc = "wait_active" /\ timeline_state # "Active"
       \/ mgr_pc = "select" /\ timeline_state = "Active"
    /\ Shutdown("sender_dropped")

\* the positions at which connection_manager_loop_step is suspended
SuspensionPoints == {"wait_active", "subscribe", "select", "shutdown_old"}

\* task_mgr::shutdown_watcher() completes: select! drops the future of
\* connection_manager_loop_step with its locals, wherever it is suspended
ShutdownWatcher ==
    /\ shutdown_requested
    /\ mgr_pc \in SuspensionPoints
    /\ Shutdown("shutdown")

\* the sub-task awaited by WalreceiverState::shutdown has shut down
ShutdownReturn ==
    /\ mgr_pc = "shutdown"
    /\ running_tasks' = running_tasks \ {Unwrap(dropped_connection).sk_id}
    /\ dropped_connection' = None
    /\ mgr_pc' = "returned"
    /\ UNCHANGED <<now, wal_connection, wal_connection_retries, wal_stream_candidates,
                   new_candidate, sleep_until, handled, node_ids_to_remove,
                   timeline_state, state_sender, shutdown_requested>>

\* the states of TimelineState
TimelineStates == {"Active", "Broken", "Stopping", "Suspended"}

\* the timeline changes its state
SetState(new_state) ==
    /\ scenario = "lifecycle"
    /\ state_sender
    /\ mgr_pc # "returned"
    /\ new_state # timeline_state
    /\ timeline_state' = new_state
    /\ UNCHANGED <<now, mgr_pc, wal_connection, wal_connection_retries,
                   wal_stream_candidates, new_candidate, sleep_until, handled,
                   node_ids_to_remove, state_sender, shutdown_requested, running_tasks,
                   dropped_connection>>

\* the timeline is dropped, and the sender of its state updates with it
DropStateSender ==
    /\ scenario = "lifecycle"
    /\ state_sender
    /\ mgr_pc # "returned"
    /\ state_sender' = FALSE
    /\ UNCHANGED <<now, mgr_pc, wal_connection, wal_connection_retries,
                   wal_stream_candidates, new_candidate, sleep_until, handled,
                   node_ids_to_remove, timeline_state, shutdown_requested, running_tasks,
                   dropped_connection>>

\* task_mgr requests the shutdown of the manager task
RequestShutdown ==
    /\ scenario = "lifecycle"
    /\ ~shutdown_requested
    /\ mgr_pc # "returned"
    /\ shutdown_requested' = TRUE
    /\ UNCHANGED <<now, mgr_pc, wal_connection, wal_connection_retries,
                   wal_stream_candidates, new_candidate, sleep_until, handled,
                   node_ids_to_remove, timeline_state, state_sender, running_tasks,
                   dropped_connection>>

WalreceiverInit ==
    /\ scenario \in WalreceiverScenarios
    /\ PostgresRedoManagerNew
    /\ WalreceiverStateNew
    /\ BackgroundProcessIdle

WalreceiverNext ==
    \/ TaskInitOrStarted /\ UNCHANGED <<vars, bp_vars>>
    \/ \E status \in UNION {ProgressStatuses(c.status) : c \in wal_connection} :
           TaskProgress(status) /\ UNCHANGED <<vars, bp_vars>>
    \/ TaskEnd /\ UNCHANGED <<vars, bp_vars>>
    \/ \E timeline_update \in BrokerUpdates : BrokerUpdate(timeline_update) /\ UNCHANGED <<vars, bp_vars>>
    \/ RetryTimer /\ UNCHANGED <<vars, bp_vars>>
    \/ Tick /\ UNCHANGED <<vars, bp_vars>>
    \/ Evaluate /\ UNCHANGED <<vars, bp_vars>>
    \/ ChangeConnection /\ UNCHANGED <<vars, bp_vars>>
    \/ ConnectionTaskShutdown /\ UNCHANGED <<vars, bp_vars>>
    \/ WaitForActiveTimeline /\ UNCHANGED <<vars, bp_vars>>
    \/ \E ok \in (IF scenario = "lifecycle" THEN BOOLEAN ELSE {TRUE}) :
           SubscribeForTimelineUpdates(ok) /\ UNCHANGED <<vars, bp_vars>>
    \/ \E kind \in {"broker_failed", "broker_ended"} :
           BrokerSubscriptionFailed(kind) /\ UNCHANGED <<vars, bp_vars>>
    \/ TimelineInactive /\ UNCHANGED <<vars, bp_vars>>
    \/ LoopStepBreak /\ UNCHANGED <<vars, bp_vars>>
    \/ ShutdownWatcher /\ UNCHANGED <<vars, bp_vars>>
    \/ ShutdownReturn /\ UNCHANGED <<vars, bp_vars>>
    \/ \E new_state \in TimelineStates : SetState(new_state) /\ UNCHANGED <<vars, bp_vars>>
    \/ DropStateSender /\ UNCHANGED <<vars, bp_vars>>
    \/ RequestShutdown /\ UNCHANGED <<vars, bp_vars>>

WalreceiverSpec == WalreceiverInit /\ [][WalreceiverNext]_<<vars, wr_vars>>

(***************************************************************************)
(* Properties of the connection manager.                                   *)
(***************************************************************************)
\* the step in which the loop evaluates next_connection_candidate
Evaluated == mgr_pc = "evaluate" /\ mgr_pc' # "evaluate"

CommitLsn(n) == wal_stream_candidates[n].timeline.commit_lsn
ConnStr(n) == wal_stream_candidates[n].timeline.safekeeper_connstr
\* the broker entry of n was updated less than lagging_wal_timeout ago
IsFresh(n) ==
    /\ n \in DOMAIN wal_stream_candidates
    /\ now - wal_stream_candidates[n].latest_update < lagging_wal_timeout
\* n has a retry record whose next_retry_at is in the future
InCooldown(n) ==
    /\ n \in DOMAIN wal_connection_retries
    /\ wal_connection_retries[n].next_retry_at # None
    /\ Unwrap(wal_connection_retries[n].next_retry_at) > now
IsApplicable(n) ==
    /\ IsFresh(n)
    /\ ConnStr(n) # ""
    /\ parse_host_port_ok(ConnStr(n))
    /\ CommitLsn(n) # INVALID
    /\ ~InCooldown(n)
ConnectedSk == {c.sk_id : c \in wal_connection}
\* the applicable candidates other than the connected safekeeper
Others == {n \in NodeIds : IsApplicable(n)} \ ConnectedSk
IsBest(n) == n \in Others /\ \A m \in Others : CommitLsn(m) <= CommitLsn(n)
\* the evaluation returns safekeeper n with the given reason
Chosen(n, reason) ==
    /\ new_candidate' # None
    /\ Unwrap(new_candidate').safekeeper_id = n
    /\ Unwrap(new_candidate').reason = reason

\* C11: with no existing connection, next_connection_candidate returns None when no
\* candidate is applicable, and otherwise an applicable candidate of greatest
\* commit_lsn with the reason NoExistingConnection
C11_NoExistingConnection ==
    [][Evaluated /\ wal_connection = None =>
         IF Others = {} THEN new_candidate' = None
         ELSE \E n \in Others : IsBest(n) /\ Chosen(n, NoExistingConnection)]_wr_vars

\* a candidate chosen for want of a connection, among several applicable ones, which
\* is not ahead of the timeline by max_lsn_wal_lag
C11_Witness ==
    /\ mgr_pc = "change"
    /\ wal_connection = None
    /\ Unwrap(new_candidate).reason = NoExistingConnection
    /\ \E m \in DOMAIN wal_stream_candidates :
          /\ IsApplicable(m)
          /\ CommitLsn(m) < CommitLsn(Unwrap(new_candidate).safekeeper_id)
    /\ CommitLsn(Unwrap(new_candidate).safekeeper_id) - get_last_record_lsn < max_lsn_wal_lag

\* C12: next_connection_candidate never returns a safekeeper whose broker entry has an
\* empty connection string or the commit_lsn INVALID, or whose next_retry_at is in the
\* future; without a connection, when the candidate of highest commit_lsn is in its
\* retry cooldown, an applicable candidate of lower commit_lsn is returned
C12_OnlyApplicable ==
    [][Evaluated =>
         /\ new_candidate' # None =>
              LET n == Unwrap(new_candidate').safekeeper_id
              IN  /\ n \in DOMAIN wal_stream_candidates
                  /\ ConnStr(n) # ""
                  /\ CommitLsn(n) # INVALID
                  /\ ~InCooldown(n)
         /\ ( /\ wal_connection = None
              /\ \E h \in NodeIds :
                    /\ IsFresh(h) /\ InCooldown(h)
                    /\ \A m \in NodeIds : IsFresh(m) => CommitLsn(m) <= CommitLsn(h)
                    /\ \E l \in NodeIds : IsApplicable(l) /\ CommitLsn(l) < CommitLsn(h) )
            => /\ new_candidate' # None
               /\ IsApplicable(Unwrap(new_candidate').safekeeper_id)]_wr_vars

\* a candidate chosen while a candidate with more WAL is in its retry cooldown
C12_Witness ==
    /\ mgr_pc = "change"
    /\ \E h \in DOMAIN wal_stream_candidates :
          /\ InCooldown(h)
          /\ ConnStr(h) # "" /\ parse_host_port_ok(ConnStr(h))
          /\ CommitLsn(h) > CommitLsn(Unwrap(new_candidate).safekeeper_id)

\* C13: every evaluation of next_connection_candidate first removes every candidate
\* entry that was not updated within lagging_wal_timeout, with the retry record of
\* each entry removed, and returns no such entry
C13_StaleEntriesPurged ==
    [][Evaluated =>
         /\ DOMAIN wal_stream_candidates' = {n \in NodeIds : IsFresh(n)}
         /\ \A n \in DOMAIN wal_stream_candidates :
               ~IsFresh(n) => n \notin DOMAIN wal_connection_retries'
         /\ new_candidate' # None => IsFresh(Unwrap(new_candidate').safekeeper_id)]_wr_vars

\* an evaluation that has removed a stale entry and has chosen a fresh one
C13_Witness ==
    /\ mgr_pc = "change"
    /\ node_ids_to_remove # {}
    /\ node_ids_to_remove \cap DOMAIN wal_stream_candidates = {}
    /\ node_ids_to_remove \cap DOMAIN wal_connection_retries = {}
    /\ IsFresh(Unwrap(new_candidate).safekeeper_id)

\* the status of the existing connection
Status == Unwrap(wal_connection).status
KeepAlivesExpired == now - Status.latest_connection_update > wal_connect_timeout
\* the best other candidate is ahead of the connection's commit_lsn by the threshold
LagReached ==
    /\ Status.commit_lsn # None
    /\ \E n \in Others : IsBest(n) /\ CommitLsn(n) - Unwrap(Status.commit_lsn) >= max_lsn_wal_lag

\* C14: while connected, if another applicable candidate exists and no keep-alive
\* has arrived for longer than wal_connect_timeout, next_connection_candidate returns
\* the best other candidate with the reason NoKeepAlives, whatever is_connected and
\* the LSNs are
C14_NoKeepAlives ==
    [][Evaluated /\ wal_connection # None /\ Others # {} /\ KeepAlivesExpired =>
         \E n \in Others :
            /\ IsBest(n)
            /\ Chosen(n, NoKeepAlives(Some(Status.latest_connection_update), now,
                                      wal_connect_timeout))]_wr_vars

\* a switch for want of keep-alives to a candidate that has no more WAL than the
\* connection, which is connected
C14_Witness ==
    /\ mgr_pc = "change"
    /\ wal_connection # None
    /\ Unwrap(new_candidate).reason.kind = "NoKeepAlives"
    /\ Status.is_connected
    /\ Status.commit_lsn # None
    /\ CommitLsn(Unwrap(new_candidate).safekeeper_id) <= Unwrap(Status.commit_lsn)

\* C15: while connected with is_connected and keep-alives not expired, if
\* status.commit_lsn is defined and the best other candidate is ahead of it by
\* max_lsn_wal_lag or more, next_connection_candidate returns that candidate with
\* the reason LaggingWal{current, new, threshold}
C15_LaggingWal ==
    [][Evaluated /\ wal_connection # None /\ Status.is_connected /\ ~KeepAlivesExpired
         /\ LagReached =>
         \E n \in Others :
            /\ IsBest(n)
            /\ Chosen(n, LaggingWal(Unwrap(Status.commit_lsn), CommitLsn(n),
                                    max_lsn_wal_lag))]_wr_vars

\* a switch to a candidate that is ahead by exactly the threshold
C15_Witness ==
    /\ mgr_pc = "change"
    /\ wal_connection # None
    /\ Unwrap(new_candidate).reason.kind = "LaggingWal"
    /\ Unwrap(new_candidate).reason.new_commit_lsn
         - Unwrap(new_candidate).reason.current_commit_lsn = max_lsn_wal_lag

\* the LSN streamed so far (the timeline's last record LSN when none is reported) and
\* the commit LSN of the connection (the former when none is reported)
CurLsn == IF Status.streaming_lsn # None THEN Unwrap(Status.streaming_lsn)
          ELSE get_last_record_lsn
CurCommitLsn == IF Status.commit_lsn # None THEN Unwrap(Status.commit_lsn) ELSE CurLsn
\* the discovery the evaluation works with: the stored one while it is ahead of the
\* connection, else a discovery made now if candidate n is ahead
Discovered(n) ==
    LET stored == Unwrap(wal_connection).discovered_new_wal
    IN  IF stored # None /\ Unwrap(stored).lsn > CurCommitLsn THEN stored
        ELSE IF CommitLsn(n) > CurCommitLsn THEN Some(NewCommittedWAL(CommitLsn(n), now))
        ELSE None
WaitingSince(n) ==
    IF CurLsn < CurCommitLsn THEN Some(Status.latest_wal_update)
    ELSE IF Discovered(n) # None
    THEN Some(IF Unwrap(Discovered(n)).discovered_at >= Status.latest_wal_update
              THEN Unwrap(Discovered(n)).discovered_at
              ELSE Status.latest_wal_update)
    ELSE None

\* C16: while connected with is_connected, keep-alives not expired and the lag not
\* reached: if waiting_since is present, the best candidate has more WAL than
\* current_commit_lsn and now - waiting_since exceeds lagging_wal_timeout,
\* next_connection_candidate returns that candidate with the reason NoWalTimeout
C16_NoWalTimeout ==
    [][Evaluated /\ wal_connection # None /\ Status.is_connected /\ ~KeepAlivesExpired
         /\ ~LagReached
         /\ (\E m \in Others :
               /\ IsBest(m)
               /\ WaitingSince(m) # None
               /\ CommitLsn(m) > CurCommitLsn
               /\ now - Unwrap(WaitingSince(m)) > lagging_wal_timeout)
         =>
         \E n \in Others :
            /\ IsBest(n)
            /\ Chosen(n, NoWalTimeout(CurLsn, CurCommitLsn, CommitLsn(n),
                                      Some(Status.latest_wal_update), now,
                                      lagging_wal_timeout))]_wr_vars

\* a switch for want of WAL that another safekeeper was discovered to have, on a
\* connection that has streamed all the WAL its safekeeper has committed
C16_Witness ==
    /\ mgr_pc = "change"
    /\ wal_connection # None
    /\ Unwrap(new_candidate).reason.kind = "NoWalTimeout"
    /\ CurLsn >= CurCommitLsn
    /\ Unwrap(wal_connection).discovered_new_wal # None

\* C17: while connected to c with a fresh status, next_connection_candidate returns
\* None when no other applicable candidate is ahead of the connection's commit_lsn by
\* max_lsn_wal_lag; it returns None when there is no other applicable candidate; and
\* it never returns c
C17_KeepsFreshConnection ==
    [][Evaluated /\ wal_connection # None =>
         /\ ( /\ ~KeepAlivesExpired
              /\ now - Status.latest_wal_update <= lagging_wal_timeout
              /\ ~LagReached ) => new_candidate' = None
         /\ Others = {} => new_candidate' = None
         /\ new_candidate' # None =>
               Unwrap(new_candidate').safekeeper_id # Unwrap(wal_connection).sk_id]_wr_vars

\* the state an evaluation has left after a status report at this instant: the
\* connection is kept although its safekeeper's own broker entry has more WAL than
\* the other applicable candidate
C17_Witness ==
    /\ mgr_pc = "select"
    /\ wal_connection # None
    /\ Unwrap(wal_connection).started_at < now
    /\ Status.is_connected
    /\ Status.latest_connection_update = now
    /\ Others # {}
    /\ Unwrap(wal_connection).sk_id \in DOMAIN wal_stream_candidates
    /\ \A m \in Others : CommitLsn(m) < CommitLsn(Unwrap(wal_connection).sk_id)

\* a returned candidate is an applicable candidate, other than the connected
\* safekeeper, of the greatest commit_lsn
StrictMaximum ==
    new_candidate' # None => IsBest(Unwrap(new_candidate').safekeeper_id)
\* the best other candidate has the commit_lsn of the connection
Tie ==
    /\ wal_connection # None
    /\ Status.commit_lsn # None
    /\ \E n \in Others : IsBest(n) /\ CommitLsn(n) = Unwrap(Status.commit_lsn)

\* C18, as claimed: selection picks the strict maximum of commit_lsn, and when the
\* best candidate's commit_lsn equals the connection's, no candidate is returned, in
\* every reachable state
C18_TiesLeaveConnection ==
    [][Evaluated => StrictMaximum /\ (Tie => new_candidate' = None)]_wr_vars

\* C18, amended: selection picks the strict maximum of commit_lsn, and when the best
\* candidate's commit_lsn equals the connection's and the connection's keep-alives
\* have not expired, no candidate is returned
C18_SelectionByCommitLsn ==
    [][Evaluated =>
         StrictMaximum /\ (Tie /\ ~KeepAlivesExpired => new_candidate' = None)]_wr_vars

\* the state an evaluation has left after a status report at this instant: the
\* connection is kept while the best other candidate has the same commit_lsn
C18_Witness ==
    /\ mgr_pc = "select"
    /\ wal_connection # None
    /\ Unwrap(wal_connection).started_at < now
    /\ Status.latest_connection_update = now
    /\ Status.is_connected
    /\ Tie

\* clamp(x, lo, hi)
Clamp(x, lo, hi) == IF x < lo THEN lo ELSE IF x > hi THEN hi ELSE x
\* the retry duration stored for sk, the minimum when there is no retry record
StoredBackoff(retries, sk) ==
    IF sk \in DOMAIN retries THEN retries[sk].retry_duration_seconds
    ELSE WALCONNECTION_RETRY_MIN_BACKOFF_SECONDS
\* the step completes drop_old_connection for a connection: the streaming sub-task
\* has ended, or it has shut down for a change of the connection
Drops ==
    \/ mgr_pc = "select" /\ mgr_pc' = "evaluate" /\ wal_connection # None
                         /\ wal_connection' = None
    \/ mgr_pc = "shutdown_old" /\ mgr_pc' = "select"
\* the connection that step drops
Dropped == Unwrap(IF mgr_pc = "select" THEN wal_connection ELSE dropped_connection)

\* C19: the backoff stored after a drop of the connection to a safekeeper is
\* clamp(prev * 1.5, 0.1 s, 15 s), prev being the backoff stored before (0.1 s
\* without a retry record), and every stored backoff lies within [0.1 s, 15 s]
C19_BackoffClamped ==
    /\ [][Drops =>
            LET sk == Dropped.sk_id
            IN  /\ sk \in DOMAIN wal_connection_retries'
                /\ 2 * wal_connection_retries'[sk].retry_duration_seconds =
                      Clamp(3 * StoredBackoff(wal_connection_retries, sk),
                            2 * WALCONNECTION_RETRY_MIN_BACKOFF_SECONDS,
                            2 * WALCONNECTION_RETRY_MAX_BACKOFF_SECONDS)]_wr_vars
    /\ [](\A sk \in DOMAIN wal_connection_retries :
            /\ wal_connection_retries[sk].retry_duration_seconds
                  >= WALCONNECTION_RETRY_MIN_BACKOFF_SECONDS
            /\ wal_connection_retries[sk].retry_duration_seconds
                  <= WALCONNECTION_RETRY_MAX_BACKOFF_SECONDS)

\* a connection has just ended and the backoff stored for its safekeeper is the
\* maximum
C19_Witness ==
    /\ mgr_pc = "evaluate"
    /\ handled.kind = "end"
    /\ wal_connection = None
    /\ \E sk \in DOMAIN wal_connection_retries :
          wal_connection_retries[sk].retry_duration_seconds
             = WALCONNECTION_RETRY_MAX_BACKOFF_SECONDS

\* the step handles a sub-task update and keeps the connection
Updated ==
    /\ mgr_pc = "select" /\ mgr_pc' = "evaluate"
    /\ wal_connection # None /\ wal_connection' # None

\* C20: a Progress update with has_processed_wal removes the retry record of the
\* connected safekeeper and no other; Init and Started updates, and updates without
\* has_processed_wal, remove nothing
C20_ProgressClearsRetry ==
    [][Updated =>
         LET sk == Unwrap(wal_connection).sk_id
         IN  /\ \A n \in NodeIds \ {sk} :
                  /\ (n \in DOMAIN wal_connection_retries') = (n \in DOMAIN wal_connection_retries)
                  /\ n \in DOMAIN wal_connection_retries =>
                        wal_connection_retries'[n] = wal_connection_retries[n]
             /\ (handled'.kind = "progress" /\ Unwrap(wal_connection').status.has_processed_wal)
                  => sk \notin DOMAIN wal_connection_retries'
             /\ (handled'.kind # "progress" \/ ~Unwrap(wal_connection').status.has_processed_wal)
                  => wal_connection_retries' = wal_connection_retries]_wr_vars

\* a Progress update with has_processed_wal has removed an escalated retry record
C20_Witness ==
    /\ mgr_pc = "evaluate"
    /\ handled.kind = "progress"
    /\ handled.removed # None
    /\ Unwrap(handled.removed).retry_duration_seconds > WALCONNECTION_RETRY_MIN_BACKOFF_SECONDS
    /\ wal_connection # None
    /\ Status.has_processed_wal
    /\ Unwrap(wal_connection).sk_id \notin DOMAIN wal_connection_retries

\* the manager task is shutting down or has returned
Exiting == mgr_pc \in {"shutdown", "returned"}
\* the step in which the manager task leaves its loop
Exits == ~Exiting /\ Exiting'

\* C21: the manager task leaves its loop only on a shutdown request or when the
\* sender of the timeline's state updates is dropped; after a failed attempt to
\* subscribe, a failed or ended broker subscription, a timeline that left Active
\* or a sub-task that ended, it goes on: it subscribes again, waits for the
\* timeline, or evaluates the candidates
C21_ExitsOnlyOnShutdownOrClosedChannel ==
    /\ [][Exits => \/ shutdown_requested /\ handled'.kind = "shutdown"
                   \/ ~state_sender /\ handled'.kind = "sender_dropped"]_wr_vars
    /\ [][(mgr_pc = "select" /\ handled'.kind \in {"broker_failed", "broker_ended", "inactive"})
             => mgr_pc' = "wait_active"]_wr_vars
    /\ [][(mgr_pc = "select" /\ handled'.kind = "end") => mgr_pc' = "evaluate"]_wr_vars
    /\ [][(mgr_pc = "subscribe" /\ handled'.kind = "subscribe_failed")
             => mgr_pc' = "subscribe"]_wr_vars

\* the broker subscription has failed while a connection exists, without a
\* shutdown request and with the state updates' sender alive, and the manager
\* waits for the Active timeline again
C21_Witness ==
    /\ mgr_pc = "wait_active"
    /\ handled.kind = "broker_failed"
    /\ wal_connection # None
    /\ ~shutdown_requested
    /\ state_sender

\* C22: once the manager task has returned no streaming sub-task is running
C22_NoTaskAfterReturn ==
    mgr_pc = "returned" => running_tasks = {}

\* C25: while the manager waits for the timeline to become Active there is no
\* connection and no streaming sub-task
C25_NoConnectionWhileInactive ==
    mgr_pc = "wait_active" => (wal_connection = None /\ running_tasks = {})

\* C26: a safekeeper without a candidate entry has no retry record
C26_RetryImpliesCandidate ==
    \A n \in NodeIds :
        n \notin DOMAIN wal_stream_candidates => n \notin DOMAIN wal_connection_retries

\* the step spawns the streaming sub-task of a new connection
Spawns == mgr_pc \in {"change", "shutdown_old"} /\ mgr_pc' = "select"

\* C27: change_connection with a connection takes it and awaits its sub-task's
\* shutdown without spawning anything; the sub-task it spawns afterwards is the
\* only one running, and its connection has is_connected = false,
\* has_processed_wal = false, both timestamps and started_at = now, no LSNs and no
\* discovered_new_wal; at most one streaming sub-task runs at any time, and it is
\* the one of the current connection if there is one
C27_OneConnectionAtATime ==
    /\ [][(mgr_pc = "change" /\ mgr_pc' # "change" /\ wal_connection # None) =>
            /\ mgr_pc' = "shutdown_old"
            /\ wal_connection' = None
            /\ running_tasks' = running_tasks]_wr_vars
    /\ [][Spawns =>
            LET sk == Unwrap(new_candidate).safekeeper_id
            IN  /\ running_tasks' = {sk}
                /\ wal_connection' =
                      Some([started_at |-> now', sk_id |-> sk,
                            status |-> [is_connected |-> FALSE,
                                        has_processed_wal |-> FALSE,
                                        latest_connection_update |-> now',
                                        latest_wal_update |-> now',
                                        streaming_lsn |-> None,
                                        commit_lsn |-> None],
                            discovered_new_wal |-> None])]_wr_vars
    /\ [](/\ Cardinality(running_tasks) <= 1
          /\ wal_connection # None => running_tasks = ConnectedSk)

\* a connection has just replaced another one, whose drop has left a retry record
C27_Witness ==
    /\ scenario = "status"
    /\ mgr_pc = "select"
    /\ wal_connection # None
    /\ Unwrap(wal_connection).started_at = now
    /\ now > 0
    /\ ~Status.is_connected
    /\ running_tasks = ConnectedSk
    /\ \E n \in DOMAIN wal_connection_retries \ ConnectedSk :
          wal_connection_retries[n].next_retry_at # None

\* C28: an evaluation of a connection with is_connected = false whose latest
\* connection update is at most wal_connect_timeout old returns None and keeps
\* the connection, whatever the other candidates are
C28_UnconnectedAttemptIsKept ==
    [][(/\ Evaluated
        /\ wal_connection # None
        /\ ~Status.is_connected
        /\ now - Status.latest_connection_update <= wal_connect_timeout)
         => /\ new_candidate' = None
            /\ mgr_pc' = "select"
            /\ wal_connection' # None
            /\ Unwrap(wal_connection').sk_id = Unwrap(wal_connection).sk_id]_wr_vars

\* a connection that has not connected, exactly wal_connect_timeout old, has been
\* kept by an evaluation at this instant although another applicable candidate,
\* whose broker message has just arrived, is ahead of the last record LSN by the
\* lag threshold
C28_Witness ==
    /\ mgr_pc = "select"
    /\ wal_connection # None
    /\ ~Status.is_connected
    /\ Unwrap(wal_connection).started_at < now
    /\ now - Status.latest_connection_update = wal_connect_timeout
    /\ \E n \in Others :
          /\ wal_stream_candidates[n].latest_update = now
          /\ CommitLsn(n) - get_last_record_lsn >= max_lsn_wal_lag

\* C29: a drop of a connection sets its safekeeper's next_retry_at to the
\* connection's started_at plus the backoff stored before the drop (0.1 s without
\* a retry record), so that a connection older than that backoff leaves its
\* safekeeper out of cooldown, and leaves the other retry records as they were;
\* change_connection without a connection changes no retry record
C29_DropSchedulesRetry ==
    /\ [][Drops =>
            LET sk == Dropped.sk_id
                backoff == retry_duration_millis(StoredBackoff(wal_connection_retries, sk))
            IN  /\ sk \in DOMAIN wal_connection_retries'
                /\ wal_connection_retries'[sk].next_retry_at
                      = Some(Dropped.started_at + backoff)
                /\ now' - Dropped.started_at >= backoff =>
                      Unwrap(wal_connection_retries'[sk].next_retry_at) <= now'
                /\ \A n \in NodeIds \ {sk} :
                      /\ (n \in DOMAIN wal_connection_retries')
                            = (n \in DOMAIN wal_connection_retries)
                      /\ n \in DOMAIN wal_connection_retries =>
                            wal_connection_retries'[n] = wal_connection_retries[n]]_wr_vars
    /\ [][(mgr_pc = "change" /\ wal_connection = None) =>
            wal_connection_retries' = wal_connection_retries]_wr_vars

\* a connection that lived longer than its safekeeper's escalated backoff has
\* just ended: the safekeeper's next_retry_at is in the past, and another
\* safekeeper has a retry record
C29_Witness ==
    /\ mgr_pc = "evaluate"
    /\ handled.kind = "end"
    /\ wal_connection = None
    /\ \E sk \in DOMAIN wal_connection_retries :
          /\ wal_connection_retries[sk].next_retry_at # None
          /\ Unwrap(wal_connection_retries[sk].next_retry_at) < now
          /\ Unwrap(wal_connection_retries[sk].next_retry_at) + TickMillis > now
          /\ wal_connection_retries[sk].retry_duration_seconds
                > WALCONNECTION_RETRY_BACKOFF_MULTIPLIER(WALCONNECTION_RETRY_MIN_BACKOFF_SECONDS)
          /\ DOMAIN wal_connection_retries # {sk}

\* the fresh candidates that only a future next_retry_at excludes
CoolingDown ==
    {n \in NodeIds : /\ IsFresh(n)
                     /\ ConnStr(n) # ""
                     /\ parse_host_port_ok(ConnStr(n))
                     /\ CommitLsn(n) # INVALID
                     /\ InCooldown(n)}

RETRY_UNTIL_SECS == 10
RETRY_INTERVAL_MILLIS == 100
RETRIES == (RETRY_UNTIL_SECS * 1000) \div RETRY_INTERVAL_MILLIS

\* the results of process_status_check: Ok(true), Ok(false), Err
StatusChecks == {"true", "false", "err"}

\* mutant: the pid file is not looked at
process_started_without_pid_file(pid, read, status) ==
    status

\* process_started, with the pid file to check: read is pid_file::read's result,
\* status the probe's
process_started(pid, read, status) ==
    IF status = "true"
    THEN CASE read.kind = "NotExist" -> "false"
           [] read.kind = "LockedByOtherProcess" ->
                  IF read.pid = pid THEN "true" ELSE "false"
           [] read.kind = "NotHeldByAnyProcess" -> "false"
    ELSE status

\* process_has_stopped: kill(pid, None) is Err(ESRCH)
process_has_stopped(pid) == pid \notin alive

\* the pid file after process pid has exited: its lock is released
Released(pid) ==
    IF pid_file = LockedByOtherProcess(pid) THEN NotHeldByAnyProcess(pid) ELSE pid_file

\* start_process up to its loop: the child is spawned; with InitialPidFile::Create
\* the child claims the pid file before exec
StartProcess ==
    /\ cli = "idle"
    /\ spawned_process = None
    /\ scenario = "Create" => pid_file.kind # "LockedByOtherProcess"
    /\ spawned_process' = Some(ChildPid)
    /\ alive' = alive \cup {ChildPid}
    /\ pid_file' = IF scenario = "Create" THEN LockedByOtherProcess(ChildPid) ELSE pid_file
    /\ cli' = "start_poll"
    /\ loop_retries' = 0
    /\ slept' = 0
    /\ status_check' = "none"
    /\ outcome' = NoOutcome
    /\ UNCHANGED <<stop_args, sent>>

\* one iteration of the loop of start_process
StartPoll(status) ==
    /\ cli = "start_poll"
    /\ status_check' = status
    /\ LET started == process_started(ChildPid, pid_file, status)
       IN  CASE started = "true" ->
                   /\ outcome' = [of |-> "start", st |-> "Ok"]
                   /\ cli' = "idle"
                   /\ UNCHANGED <<loop_retries, slept, sent, alive, pid_file>>
             [] started = "false" ->
                   /\ loop_retries' = loop_retries + 1
                   /\ slept' = slept + RETRY_INTERVAL_MILLIS
                   /\ IF loop_retries + 1 = RETRIES
                      THEN /\ outcome' = [of |-> "start", st |-> "did not start"]
                           /\ cli' = "idle"
                      ELSE UNCHANGED <<outcome, cli>>
                   /\ UNCHANGED <<sent, alive, pid_file>>
             [] OTHER ->
                   /\ sent' = sent \cup {<<ChildPid, "SIGKILL">>}
                   /\ alive' = alive \ {ChildPid}
                   /\ pid_file' = Released(ChildPid)
                   /\ outcome' = [of |-> "start", st |-> "failed to start"]
                   /\ cli' = "idle"
                   /\ UNCHANGED <<loop_retries, slept>>
    /\ UNCHANGED <<spawned_process, stop_args>>

\* the signal stop_process sends
StopSignal(immediate) == IF immediate THEN "SIGQUIT" ELSE "SIGTERM"

\* mutant: the pid of a pid file that no process holds is used as well
StopProcess_by_contents(immediate) ==
    /\ cli = "idle"
    /\ loop_retries' = 0
    /\ slept' = 0
    /\ IF pid_file.kind = "NotExist"
       THEN /\ outcome' = [of |-> "stop", st |-> "Ok"]
            /\ stop_args' = [immediate |-> immediate, pid |-> None]
            /\ UNCHANGED cli
       ELSE /\ stop_args' = [immediate |-> immediate, pid |-> Some(pid_file.pid)]
            /\ outcome' = NoOutcome
            /\ cli' = "stop_kill"
    /\ UNCHANGED <<pid_file, alive, spawned_process, status_check, sent>>

\* stop_process up to kill(): the pid file is read
StopProcess(immediate) ==
    /\ cli = "idle"
    /\ loop_retries' = 0
    /\ slept' = 0
    /\ IF pid_file.kind \in {"NotExist", "NotHeldByAnyProcess"}
       THEN /\ outcome' = [of |-> "stop", st |-> "Ok"]
            /\ stop_args' = [immediate |-> immediate, pid |-> None]
            /\ UNCHANGED cli
       ELSE /\ stop_args' = [immediate |-> immediate, pid |-> Some(pid_file.pid)]
            /\ outcome' = NoOutcome
            /\ cli' = "stop_kill"
    /\ UNCHANGED <<pid_file, alive, spawned_process, status_check, sent>>

\* stop_process: kill(pid, sig) is Ok, or Err(ESRCH) if the process is gone
StopKill ==
    /\ cli = "stop_kill"
    /\ LET pid == Unwrap(stop_args.pid)
       IN  IF pid \in alive
           THEN /\ sent' = sent \cup {<<pid, StopSignal(stop_args.immediate)>>}
                /\ cli' = "stop_poll"
                /\ UNCHANGED outcome
           ELSE /\ outcome' = [of |-> "stop", st |-> "Ok"]
                /\ cli' = "idle"
                /\ UNCHANGED sent
    /\ UNCHANGED <<pid_file, alive, spawned_process, loop_retries, slept, status_check,
                   stop_args>>

\* one iteration of the loop of stop_process
StopPoll ==
    /\ cli = "stop_poll"
    /\ IF process_has_stopped(Unwrap(stop_args.pid))
       THEN /\ outcome' = [of |-> "stop", st |-> "Ok"]
            /\ cli' = "idle"
            /\ UNCHANGED <<loop_retries, slept>>
       ELSE /\ loop_retries' = loop_retries + 1
            /\ slept' = slept + RETRY_INTERVAL_MILLIS
            /\ IF loop_retries + 1 = RETRIES
               THEN /\ outcome' = [of |-> "stop", st |-> "did not stop"]
                    /\ cli' = "idle"
               ELSE UNCHANGED <<outcome, cli>>
    /\ UNCHANGED <<pid_file, alive, spawned_process, status_check, stop_args, sent>>

\* with InitialPidFile::Expect the child claims the pid file itself
ClaimForCurrentProcess ==
    /\ scenario = "Expect"
    /\ ChildPid \in alive
    /\ pid_file.kind # "LockedByOtherProcess"
    /\ pid_file' = LockedByOtherProcess(ChildPid)
    /\ UNCHANGED <<cli, alive, spawned_process, loop_retries, slept, status_check,
                   stop_args, sent, outcome>>

\* a process exits, by itself or on a signal, and releases the pid file
ProcessExits(pid) ==
    /\ pid \in alive
    /\ alive' = alive \ {pid}
    /\ pid_file' = Released(pid)
    /\ UNCHANGED <<cli, spawned_process, loop_retries, slept, status_check,
                   stop_args, sent, outcome>>

BackgroundProcessInit ==
    /\ scenario \in {"Create", "Expect"}
    /\ PostgresRedoManagerNew
    /\ WalreceiverStateNew
    /\ BackgroundProcessIdle

BackgroundProcessNext ==
    \/ StartProcess /\ UNCHANGED <<vars, wr_vars>>
    \/ \E status \in StatusChecks : StartPoll(status) /\ UNCHANGED <<vars, wr_vars>>
    \/ \E immediate \in BOOLEAN : StopProcess(immediate) /\ UNCHANGED <<vars, wr_vars>>
    \/ StopKill /\ UNCHANGED <<vars, wr_vars>>
    \/ StopPoll /\ UNCHANGED <<vars, wr_vars>>
    \/ ClaimForCurrentProcess /\ UNCHANGED <<vars, wr_vars>>
    \/ \E pid \in alive : ProcessExits(pid) /\ UNCHANGED <<vars, wr_vars>>

BackgroundProcessSpec ==
    BackgroundProcessInit /\ [][BackgroundProcessNext]_<<vars, wr_vars, bp_vars>>

(***************************************************************************)
(* Properties of the background processes.                                 *)
(***************************************************************************)
\* the step is an iteration of the loop of start_process
StartPolls == cli = "start_poll" /\ (cli' # cli \/ loop_retries' # loop_retries)

\* C23: start_process returns Ok only from a poll on which the status probe
\* returned true and the pid file was read as locked by the pid of the spawned
\* child, after fewer than 100 polls with 100 ms of sleep after each; a poll
\* whose probe returned true while the pid file is missing, held by no process
\* or locked by another pid is a failed poll, followed by a sleep of 100 ms
C23_StartedMeansProbeAndPidFile ==
    /\ [][(StartPolls /\ outcome'.st = "Ok") =>
            /\ status_check' = "true"
            /\ pid_file = LockedByOtherProcess(Unwrap(spawned_process))
            /\ loop_retries < RETRIES
            /\ slept = loop_retries * RETRY_INTERVAL_MILLIS]_bp_vars
    /\ [][(/\ StartPolls
           /\ status_check' = "true"
           /\ pid_file # LockedByOtherProcess(Unwrap(spawned_process)))
            => /\ outcome'.st # "Ok"
               /\ loop_retries' = loop_retries + 1
               /\ slept' = slept + RETRY_INTERVAL_MILLIS]_bp_vars
    /\ [](cli = "start_poll" => loop_retries < RETRIES)

\* start_process has returned Ok on its last poll: the child has claimed the pid
\* file, which an earlier process stopped by stop_process had left behind, only
\* then
C23_Witness ==
    /\ scenario = "Expect"
    /\ outcome = [of |-> "start", st |-> "Ok"]
    /\ loop_retries = RETRIES - 1
    /\ status_check = "true"
    /\ pid_file = LockedByOtherProcess(ChildPid)
    /\ <<EarlierPid, "SIGTERM">> \in sent

\* C24: stop_process goes on to kill() only with the pid of a pid file read as
\* locked by another process, and the one signal it sends goes to that pid:
\* SIGQUIT if immediate, SIGTERM otherwise; for a missing pid file or one held by
\* no process it returns Ok and sends nothing; a pid file that exists is never
\* deleted
C24_StopUsesOnlyLockedPidFile ==
    /\ [][(cli = "idle" /\ cli' = "stop_kill") =>
            /\ pid_file.kind = "LockedByOtherProcess"
            /\ stop_args'.pid = Some(pid_file.pid)
            /\ sent' = sent]_bp_vars
    /\ [][(cli # "start_poll" /\ sent' # sent) =>
            /\ cli = "stop_kill"
            /\ sent' = sent \cup {<<Unwrap(stop_args.pid),
                                    IF stop_args.immediate THEN "SIGQUIT" ELSE "SIGTERM">>}]_bp_vars
    /\ [][(/\ cli = "idle" /\ cli' # "start_poll"
           /\ pid_file.kind \in {"NotExist", "NotHeldByAnyProcess"})
            => /\ cli' = "idle"
               /\ sent' = sent
               /\ outcome' \in {outcome, [of |-> "stop", st |-> "Ok"]}]_bp_vars
    /\ [][pid_file.kind # "NotExist" => pid_file'.kind # "NotExist"]_bp_vars

\* stop_process, immediate, has sent SIGQUIT to the process that held the pid
\* file; the process has exited and the pid file is still there, held by no process
C24_Witness ==
    /\ cli = "stop_poll"
    /\ stop_args = [immediate |-> TRUE, pid |-> Some(EarlierPid)]
    /\ <<EarlierPid, "SIGQUIT">> \in sent
    /\ pid_file = NotHeldByAnyProcess(EarlierPid)

\* the discovery stored on the connection
Stored == Unwrap(wal_connection).discovered_new_wal
\* the evaluation gets past the keep-alive and is_connected checks with a
\* selected candidate and returns None at its end
RanToEnd ==
    /\ Evaluated
    /\ wal_connection # None
    /\ Others # {}
    /\ ~KeepAlivesExpired
    /\ Status.is_connected
    /\ new_candidate' = None

\* C31: an evaluation leaves a stored discovered_new_wal as it is, lsn and
\* discovered_at, while its lsn is greater than current_commit_lsn; the stored
\* value changes only in an evaluation that runs to the end and returns None,
\* when it is absent or no longer ahead: it becomes {best.commit_lsn, now} if
\* the best candidate's commit_lsn is greater than current_commit_lsn, and
\* absent otherwise; nothing but an evaluation changes it on a connection.
C31_DiscoveredNewWalKept ==
    [][(wal_connection # None /\ wal_connection' # None
          /\ Unwrap(wal_connection').sk_id = Unwrap(wal_connection).sk_id) =>
         LET stored == Stored
             ahead  == stored # None /\ Unwrap(stored).lsn > CurCommitLsn
         IN  /\ (Evaluated /\ ahead) => Stored' = stored
             /\ Stored' # stored =>
                   /\ RanToEnd
                   /\ ~ahead
             /\ (RanToEnd /\ ~ahead) =>
                   \E n \in Others :
                      /\ IsBest(n)
                      /\ Stored' = IF CommitLsn(n) > CurCommitLsn
                                   THEN Some(NewCommittedWAL(CommitLsn(n), now))
                                   ELSE None]_wr_vars

\* a discovery made at an earlier evaluation is still stored, unrefreshed,
\* while the connection has not caught up with it
C31_Witness ==
    /\ wal_connection # None
    /\ mgr_pc = "select"
    /\ Stored # None
    /\ Unwrap(Stored).discovered_at < now
    /\ Unwrap(Stored).lsn > CurCommitLsn
    /\ Status.latest_wal_update > Unwrap(Stored).discovered_at

\* C40: a candidate returned with the reason LaggingWal or NoWalTimeout is
\* another safekeeper than the connected one, the connection has is_connected
\* set, and the candidate's commit_lsn is greater than the connection's
\* current commit LSN (status.commit_lsn, or else the streaming LSN, or else
\* the last record LSN); a candidate that is not ahead is returned with
\* NoKeepAlives or NoExistingConnection only.
C40_SwitchForWalOnlyToAhead ==
    [][(Evaluated /\ new_candidate' # None) =>
         LET new    == Unwrap(new_candidate')
             commit == wal_stream_candidates'[new.safekeeper_id].timeline.commit_lsn
         IN  /\ new.reason.kind \in {"LaggingWal", "NoWalTimeout"} =>
                   /\ wal_connection # None
                   /\ new.safekeeper_id # Unwrap(wal_connection).sk_id
                   /\ Status.is_connected
                   /\ commit > CurCommitLsn
             /\ (wal_connection # None /\ commit <= CurCommitLsn) =>
                   new.reason.kind = "NoKeepAlives"
             /\ wal_connection = None => new.reason = NoExistingConnection]_wr_vars

\* a switch for want of WAL on a connection that reports no commit_lsn, to a
\* candidate ahead of the LSN streamed so far
C40_Witness ==
    /\ mgr_pc = "change"
    /\ wal_connection # None
    /\ Unwrap(new_candidate).reason.kind = "NoWalTimeout"
    /\ Status.commit_lsn = None
    /\ CommitLsn(Unwrap(new_candidate).safekeeper_id) > CurLsn

(***************************************************************************)
(* Contract assertions of in-process application.                          *)
(***************************************************************************)
\* the (segment, block) of page number pageno of an SLRU
OnBlock(key, pageno) ==
    /\ key.segno = pageno \div SLRU_PAGES_PER_SEGMENT
    /\ key.blknum = pageno % SLRU_PAGES_PER_SEGMENT
\* the key translates to the block category of the record
KeyFits(key, rec) ==
    IF rec.type = "ClearVisibilityMapFlags" THEN key.kind = "rel" ELSE key.kind = "slru"
\* the record breaks a contract of its variant for the key
Violates(key, rec) ==
    /\ KeyFits(key, rec)
    /\ CASE rec.type = "ClearVisibilityMapFlags" ->
               \/ key.forknum # VISIBILITYMAP_FORKNUM
               \/ \E b \in rec.new_heap_blkno \cup rec.old_heap_blkno :
                     b \div HEAPBLOCKS_PER_PAGE # key.blknum
         [] rec.type \in {"ClogSetCommitted", "ClogSetAborted"} ->
               \/ key.slru_kind # "Clog"
               \/ \E i \in 1..Len(rec.xids) :
                     ~OnBlock(key, rec.xids[i] \div CLOG_XACTS_PER_PAGE)
         [] rec.type = "MultixactOffsetCreate" ->
               \/ key.slru_kind # "MultiXactOffsets"
               \/ ~OnBlock(key, rec.mid \div MULTIXACT_OFFSETS_PER_PAGE)
         [] rec.type = "MultixactMembersCreate" ->
               \/ key.slru_kind # "MultiXactMembers"
               \/ \E i \in 1..Len(rec.members) :
                     ~OnBlock(key, (rec.moff + i - 1) \div MULTIXACT_MEMBERS_PER_PAGE)
         [] OTHER -> FALSE
\* caller c's call has returned, and it had a base image and a record list in
\* which the first record that does not apply in-process breaks a contract
HitViolation(c) ==
    /\ Returned(c)
    /\ req[c].base_img # None
    /\ \E i \in 1..Len(Records(c)) :
          /\ Violates(req[c].key, Records(c)[i][2])
          /\ \A j \in 1..(i - 1) :
                /\ can_apply_in_neon(Records(c)[j][2])
                /\ KeyFits(req[c].key, Records(c)[j][2])
                /\ ~Violates(req[c].key, Records(c)[j][2])

\* C33 as stated: a violated contract assertion makes request_redo return an
\* error to the caller.
C33_ViolationReturnsError ==
    \A c \in Callers : HitViolation(c) => ret[c].st = "err"

\* C33 as amended: a violated contract assertion makes request_redo panic: no
\* error and no page is returned; and the base image the caller has passed is
\* the same throughout the call.
C33_ViolationPanics ==
    /\ [](\A c \in Callers : HitViolation(c) => ret[c] = Panic)
    /\ [][\A c \in Callers :
            (pc[c] # "idle" /\ pc'[c] # "idle") => req'[c] = req[c]]_vars

\* a call has panicked on the second record of its batch, after the first
\* record was applied to the working copy of the page
C33_Witness ==
    \E c \in Callers :
        /\ HitViolation(c)
        /\ ret[c] = Panic
        /\ Len(Records(c)) = 2
        /\ ~Violates(req[c].key, Records(c)[1][2])
        /\ req[c].base_img = Some(VMBase)

\* C36: when start_process returns an error from the loop that polls the
\* spawned child, because the probe failed or because the child did not
\* become ready within RETRIES polls, the child has been sent a kill and is
\* not left running.
C36_FailedStartKillsChild ==
    [][(StartPolls /\ outcome'.of = "start" /\ outcome'.st \notin {"Ok", "none"}) =>
          /\ <<ChildPid, "SIGKILL">> \in sent'
          /\ ChildPid \notin alive']_bp_vars

(***************************************************************************)
(* Properties of the I/O loop of apply_wal_records.                        *)
(***************************************************************************)
InLoop(c) == pc[c] = "io"
\* the iteration caller c's loop makes under the event ev
IterationOf(c, ev) ==
    apply_wal_records_iteration(io[c].nwrite, io[c].nresult, io[c].len, ev)
LoopEvents(c) == IoEvents(io[c].nwrite, io[c].nresult, io[c].len, io[c].eof)
Readable(revents) == revents \cap {"POLLERR", "POLLIN"} # {}
Writable(revents) == revents \cap {"POLLERR", "POLLOUT"} # {}
\* stderr is readable and its read returns at least one byte
StderrDelivers(ev) == ~ev.pollerr /\ Readable(ev.err) /\ ev.errread.ok /\ ev.errread.n > 0
\* the iteration gets past stderr: nothing to read there, and no hang-up
StderrQuiet(ev) ==
    /\ ~ev.pollerr
    /\ "POLLHUP" \notin ev.err
    /\ Readable(ev.err) => (ev.errread.ok /\ ev.errread.n = 0)
\* the iteration gets past stdin: nothing left to write, or stdin not ready,
\* or a write that succeeds
StdinPassed(c, ev) ==
    \/ io[c].nwrite >= io[c].len
    \/ ev.in = {}
    \/ Writable(ev.in) /\ ev.wr.ok

\* C34: in an iteration in which stderr is readable and its read returns at
\* least one byte, the bytes are logged and the iteration ends there: nothing
\* is written to stdin, stdout is not read, and the counters are as before;
\* an iteration that reads stdout is one in which stderr delivered no bytes.
C34_StderrOutputEndsIteration ==
    /\ [](\A c \in Callers : InLoop(c) =>
            \A ev \in LoopEvents(c) :
                LET it == IterationOf(c, ev)
                IN  /\ StderrDelivers(ev) =>
                         /\ it.res = "continue"
                         /\ "logged" \in it.did
                         /\ it.did \cap {"stdin", "stdout"} = {}
                         /\ it.nwrite = io[c].nwrite
                         /\ it.nresult = io[c].nresult
                    /\ "stdout" \in it.did => ~StderrDelivers(ev))
    /\ [][\A c \in Callers :
            (InLoop(c) /\ io'[c] # io[c] /\ io'[c].logged > 0) =>
                /\ InLoop(c)'
                /\ io'[c].nwrite = io[c].nwrite
                /\ io'[c].nresult = io[c].nresult
                /\ io'[c].did = {"stderr", "logged"}]_vars

\* the child's stderr output was logged while request bytes were still to be
\* written and part of the page had been read
C34_Witness ==
    \E c \in Callers :
        /\ InLoop(c)
        /\ io[c].logged = 2
        /\ io[c].nwrite < io[c].len
        /\ io[c].nresult > 0

\* C35: before the page is complete, a hang-up of stderr or of stdout with
\* nothing to read, or of stdin while request bytes remain, that the iteration
\* gets to examine fails the child run with a broken-pipe error, and the
\* child is taken out of the mutex and killed; once the whole request is
\* written the state of stdin does not matter.
C35_HangUpIsBrokenPipe ==
    /\ [](\A c \in Callers : InLoop(c) =>
            \A ev \in LoopEvents(c) :
                LET it == IterationOf(c, ev)
                    broken(pipe) ==
                        /\ it.res = "fail"
                        /\ it.e = Some(IoErr("BrokenPipe",
                                   "WAL redo process closed its " \o pipe \o " unexpectedly"))
                IN  /\ (~ev.pollerr /\ "POLLHUP" \in ev.err) => broken("stderr")
                    /\ (StderrQuiet(ev) /\ io[c].nwrite < io[c].len /\ "POLLHUP" \in ev.in)
                          => broken("stdin")
                    /\ (StderrQuiet(ev) /\ StdinPassed(c, ev) /\ "POLLHUP" \in ev.out)
                          => broken("stdout")
                    /\ io[c].nwrite >= io[c].len =>
                          it = IterationOf(c, [ev EXCEPT !.in = {}]))
    /\ [][\A c \in Callers :
            (InLoop(c) /\ Returned(c)' /\ ret'[c].err = "IoError"
               /\ Unwrap(ret'[c].io).kind = "BrokenPipe") =>
                /\ process' = None
                /\ Unwrap(process) \notin live'
                /\ mutex' = None]_vars

\* a child run has failed because the child closed its stdout
C35_Witness ==
    \E c \in Callers :
        /\ ChildRunFailed(c)
        /\ ret[c].io = Some(IoErr("BrokenPipe",
                                  "WAL redo process closed its stdout unexpectedly"))
        /\ live = {}

\* the request buffer of the child run caller c has started last
RunBuf(c) ==
    build_writebuf(req[c].key, LastEntry(c).base, Records(c),
                   LastEntry(c).first, LastEntry(c).last)
InChildRun(c) == log[c] # << >> /\ ~LastEntry(c).neon

\* C32: the request of a child run is one BEGIN_REDO with the buffer tag, one
\* PUSH_PAGE with the 8 KiB base image exactly if there is a base image, one
\* APPLY_RECORD per record of the run in the order of the record list, with
\* its LSN and payload, and one GET_PAGE with the buffer tag; every write to
\* stdin is given the bytes from offset nwrite on and advances nwrite by the
\* number of bytes it has written, so the bytes go out in buffer order, none
\* skipped and none repeated.
C32_RequestInBufferOrder ==
    /\ [](\A c \in Callers : InChildRun(c) =>
            LET buf  == RunBuf(c)
                e    == LastEntry(c)
                n    == e.last - e.first + 1
                off  == IF e.base # None THEN 2 ELSE 1
            IN  /\ Len(buf) = off + n + 1
                /\ buf[1].type = "B" /\ buf[1].tag = Some(req[c].key)
                /\ e.base # None =>
                      (buf[2].type = "P" /\ buf[2].tag = Some(req[c].key)
                         /\ buf[2].page = e.base /\ Unwrap(e.base).len = BLCKSZ)
                /\ \A k \in 1..n :
                      /\ buf[off + k].type = "A"
                      /\ buf[off + k].lsn = Records(c)[e.first + k - 1][1]
                      /\ buf[off + k].rec = Records(c)[e.first + k - 1][2].rec
                /\ buf[Len(buf)].type = "G" /\ buf[Len(buf)].tag = Some(req[c].key)
                /\ \A j \in 1..Len(buf) :
                      /\ buf[j].type = "P" => j = 2
                      /\ buf[j].type = "B" => j = 1
                      /\ buf[j].type = "G" => j = Len(buf)
                /\ io[c].len = writebuf_len(buf)
                /\ InLoop(c) =>
                      \A ev \in LoopEvents(c) :
                          LET it == IterationOf(c, ev)
                          IN  it.res = "continue" =>
                                /\ it.nwrite = io[c].nwrite
                                       + (IF "stdin" \in it.did THEN ev.wr.n ELSE 0)
                                /\ "stdin" \in it.did =>
                                       ev.wr \in WriteResults(io[c].len - io[c].nwrite)
                                /\ it.nwrite <= io[c].len)
    /\ [][\A c \in Callers :
            /\ (~InLoop(c) /\ InLoop(c)') =>
                  (io'[c].nwrite \in Sizes(io'[c].len) /\ io'[c].nresult = 0)
            /\ (InLoop(c) /\ InLoop(c)' /\ io'[c].nwrite # io[c].nwrite) =>
                  /\ "stdin" \in io'[c].did
                  /\ io'[c].nwrite - io[c].nwrite \in Sizes(io[c].len - io[c].nwrite)]_vars

\* a child run with a base image and two records of different LSNs has
\* written its whole request, the last part of it in the loop
C32_Witness ==
    \E c \in Callers :
        /\ InLoop(c)
        /\ LastEntry(c).base # None
        /\ LastEntry(c).last > LastEntry(c).first
        /\ RunBuf(c)[3].lsn < RunBuf(c)[4].lsn
        /\ io[c].nwrite = io[c].len
        /\ "stdin" \in io[c].did
        /\ io[c].nresult > 0

\* C37: every child run terminates: a caller in the I/O loop eventually
\* leaves it, and a held process mutex is eventually released.
C37_ChildRunTerminates ==
    /\ \A c \in Callers : InLoop(c) ~> ~InLoop(c)
    /\ (mutex # None) ~> (mutex = None)

\* the last batch of caller c was a child run that returned a page
ChildRunSucceeded(c) ==
    /\ log[c] # << >>
    /\ ~LastEntry(c).neon
    /\ LastEntry(c).out # None

\* C38 as stated: when apply_wal_records returns a page, the whole request
\* buffer has been written and 8192 bytes have been read.
C38_WholeRequestWritten ==
    \A c \in Callers :
        ChildRunSucceeded(c) => (io[c].nwrite = io[c].len /\ io[c].nresult = BLCKSZ)

\* C38 as amended: when apply_wal_records returns a page, exactly 8192 bytes
\* have been read from stdout, and at most the request buffer has been
\* written; throughout the loop 0 <= nwrite <= len and 0 <= nresult < 8192,
\* and neither counter decreases from one iteration to the next.
C38_ResultCompleteCountersBounded ==
    /\ [](\A c \in Callers :
            /\ ChildRunSucceeded(c) =>
                  (io[c].nresult = BLCKSZ /\ 0 <= io[c].nwrite /\ io[c].nwrite <= io[c].len)
            /\ InLoop(c) =>
                  /\ 0 <= io[c].nwrite /\ io[c].nwrite <= io[c].len
                  /\ 0 <= io[c].nresult /\ io[c].nresult < BLCKSZ)
    /\ [][\A c \in Callers :
            (InLoop(c) /\ (InLoop(c)' \/ ChildRunSucceeded(c)')) =>
                /\ io'[c].len = io[c].len
                /\ io'[c].nwrite >= io[c].nwrite
                /\ io'[c].nresult >= io[c].nresult]_vars

\* a child run returned its page after the whole of a request longer than one
\* I/O chunk had been written
C38_Witness ==
    \E c \in Callers :
        /\ ChildRunSucceeded(c)
        /\ io[c].nresult = BLCKSZ
        /\ io[c].nwrite = io[c].len
        /\ io[c].len > IoChunk

\* C39: an iteration returns the time-out error exactly when its poll comes
\* back with none of the polled descriptors ready, stdin being polled only
\* while request bytes remain; whatever the earlier iterations did, an
\* iteration that finds a descriptor ready, the stderr of a child that only
\* logs included, does not time out.
C39_TimeoutPerPoll ==
    [](\A c \in Callers : InLoop(c) =>
         \A ev \in LoopEvents(c) :
             LET it      == IterationOf(c, ev)
                 polledIn == IF io[c].nwrite < io[c].len THEN ev.in ELSE {}
             IN  /\ (it.res = "fail" /\ it.e = Some(IoErr("Other", "WAL redo timed out")))
                       <=> (~ev.pollerr /\ ev.out = {} /\ ev.err = {} /\ polledIn = {})
                 /\ "timeout" \in it.did <=>
                       (it.res = "fail" /\ it.e = Some(IoErr("Other", "WAL redo timed out"))))

\* a child run has ended with the time-out error
C39_Witness ==
    \E c \in Callers :
        /\ ChildRunFailed(c)
        /\ "timeout" \in io[c].did
        /\ ret[c].io = Some(IoErr("Other", "WAL redo timed out"))
====
